---- MODULE Spec2Model ----
(***************************************************************************)
(* Model of the command dispatch and error-correlation core of RSSscpi     *)
(* (RSSscpi/gen/Instrument.py): the Instrument class with its IO lock,     *)
(* callback-guard lock, error/event queues, command counter and the        *)
(* LimitedCapacityDict debug history, driven by caller threads and the     *)
(* VISA callback thread.                                                   *)
(*                                                                         *)
(* Text (command strings, device responses) is a sequence of one-character *)
(* strings, so that the regular expression of _get_error_queue and the     *)
(* history lookup by command text are computed on characters.              *)
(***************************************************************************)
EXTENDS Integers, Sequences, FiniteSets, TLC

(***************************************************************************)
(* Bounds of the model.                                                    *)
(***************************************************************************)
\* Spec: total number of write/query/init calls started by the caller threads
MaxCalls == 3
\* Spec: number of service requests delivered to the callback thread
MaxSrq == 1
\* SeqSpec: number of write/query/init calls started by the caller thread
MaxSeqCalls == 2
\* SeqSpec: number of service requests delivered to the callback thread
MaxSeqSrq == 1
\* HistSpec, FairSpec: number of write/query/init calls started by the caller thread
MaxHistCalls == 2
\* HistSpec, FairSpec: number of service requests delivered to the callback thread
MaxHistSrq == 1
\* RepSpec: number of write/query/init calls started by the caller thread
MaxRepCalls == 2
\* RepSpec: number of service requests delivered to the callback thread
MaxRepSrq == 2
\* DictSpec: number of assignments made to a LimitedCapacityDict used on its own
MaxPuts == 4
\* DictSpec: number of different keys assigned
MaxDictKeys == 4
\* DictSpec: largest capacity given to the constructor
MaxDictCap == 2
\* largest history capacity assigned through the max_len setter
MaxCap == 1

\* ResizeSpec: number of different keys assigned
MaxResizeKeys == 3
\* ResizeSpec: largest capacity given to the constructor or assigned to max_len
MaxResizeCap == 2

\* FmtSpec: fields of a template, and positional arguments of a call
MaxFields == 2
\* FmtSpec: vformat calls on the formatter
MaxFmtCalls == 2
\* FieldSpec: elements of a sequence given to format_field
MaxElems == 2
\* FieldSpec: trailing "*" of a spec given to format_field
MaxStars == 2
\* ArgSpec: positional arguments of a call
MaxArgs == 2
\* calls and service requests in CorrSpec
MaxCorrCalls == 2
MaxCorrSrq == 1
\* calls and service requests in TraceSpec
MaxTraceCalls == 4
MaxTraceSrq == 1
\* calls and service requests in LiveSpec
MaxLiveCalls == 2
MaxLiveSrq == 1

(***************************************************************************)
(* Characters and text.                                                    *)
(***************************************************************************)
UpperCase ==
  {"A","B","C","D","E","F","G","H","I","J","K","L","M",
   "N","O","P","Q","R","S","T","U","V","W","X","Y","Z"}

DigitChars == <<"0","1","2","3","4","5","6","7","8","9">>

Digits == {DigitChars[i] : i \in 1..10}

\* the value of one decimal digit character
DigitVal(c) == (CHOOSE i \in 1..10 : DigitChars[i] = c) - 1

NL == "\n"

DQ == "\""

\* s[from..] as a sequence (empty when from is past the end)
Drop(s, from) == SubSeq(s, from, Len(s))

\* index of the first element of s at or after i that satisfies being in set S, 0 if none
RECURSIVE FirstIn(_, _, _)
FirstIn(s, i, S) ==
  IF i > Len(s) THEN 0
  ELSE IF s[i] \in S THEN i
  ELSE FirstIn(s, i + 1, S)

\* number of elements of s that are in S
RECURSIVE CountIn(_, _)
CountIn(s, S) ==
  IF s = <<>> THEN 0
  ELSE (IF Head(s) \in S THEN 1 ELSE 0) + CountIn(Tail(s), S)

\* str.replace("\n", " ")
ReplaceNL(s) == [i \in 1..Len(s) |-> IF s[i] = NL THEN " " ELSE s[i]]

\* int(text) for an optional minus sign followed by decimal digits
RECURSIVE DigitsToNat(_, _)
DigitsToNat(s, acc) ==
  IF s = <<>> THEN acc
  ELSE DigitsToNat(Tail(s), acc * 10 + DigitVal(Head(s)))

ParseInt(s) ==
  IF s # <<>> /\ Head(s) = "-" THEN 0 - DigitsToNat(Tail(s), 0)
  ELSE DigitsToNat(s, 0)

\* the decimal text of an integer, as the instrument prints an error code
RECURSIVE NatToDigits(_)
NatToDigits(n) ==
  IF n < 10 THEN <<DigitChars[n + 1]>>
  ELSE NatToDigits(n \div 10) \o <<DigitChars[(n % 10) + 1]>>

IntToText(n) == IF n < 0 THEN <<"-">> \o NatToDigits(0 - n) ELSE NatToDigits(n)

(***************************************************************************)
(* The regular expression of _get_error_queue,                             *)
(*   (-?\d+),"(.*?([A-Z]{3}.*?)?(?:\n.*?)?)"                               *)
(* evaluated with re.finditer: leftmost match, lazy quantifiers, '.' does  *)
(* not match a line break, matches do not overlap.                         *)
(***************************************************************************)
\* the end of the maximal run of digits starting at i (i - 1 if none)
RECURSIVE DigitRunEnd(_, _)
DigitRunEnd(s, i) ==
  IF i <= Len(s) /\ s[i] \in Digits THEN DigitRunEnd(s, i + 1) ELSE i - 1

\* first index p in the line such that line[p..p+2] are upper-case letters, 0 if none
RECURSIVE FirstUpper3(_, _)
FirstUpper3(line, p) ==
  IF p + 2 > Len(line) THEN 0
  ELSE IF line[p] \in UpperCase /\ line[p + 1] \in UpperCase /\ line[p + 2] \in UpperCase
       THEN p
       ELSE FirstUpper3(line, p + 1)

NoMatch == [ok |-> FALSE, end |-> 0, g1 |-> <<>>, g2 |-> <<>>, has3 |-> FALSE, g3 |-> <<>>]

\* the match of the pattern that starts exactly at index i, or NoMatch
MatchAt(s, i) ==
  LET d0 == IF i <= Len(s) /\ s[i] = "-" THEN i + 1 ELSE i
      d1 == DigitRunEnd(s, d0)
  IN IF d1 < d0 \/ d1 + 2 > Len(s) \/ s[d1 + 1] # "," \/ s[d1 + 2] # DQ
     THEN NoMatch
     ELSE LET k == d1 + 3
              q == FirstIn(s, k, {DQ})
          IN IF q = 0 THEN NoMatch
             ELSE LET body == SubSeq(s, k, q - 1)
                      nl == FirstIn(body, 1, {NL})
                      line == IF nl = 0 THEN body ELSE SubSeq(body, 1, nl - 1)
                      p == FirstUpper3(line, 1)
                  IN IF CountIn(body, {NL}) > 1 THEN NoMatch
                     ELSE [ok |-> TRUE, end |-> q,
                           g1 |-> SubSeq(s, i, d1),
                           g2 |-> body,
                           has3 |-> p # 0,
                           g3 |-> IF p = 0 THEN <<>> ELSE Drop(line, p)]

\* re.finditer(pattern, s): the successive non-overlapping matches from index i on
RECURSIVE FindIter(_, _)
FindIter(s, i) ==
  IF i > Len(s) THEN <<>>
  ELSE LET m == MatchAt(s, i)
       IN IF m.ok THEN <<m>> \o FindIter(s, m.end + 1)
          ELSE FindIter(s, i + 1)

(***************************************************************************)
(* Command texts and device error records.                                 *)
(***************************************************************************)
\* "*CLS;*ESE 127;*SRE 36", the command init() writes
CmdInit == <<"*", "C", "L", "S", ";", "*", "E", "S", "E", " ", "1", "2", "7", ";", "*", "S", "R", "E", " ", "3", "6">>

\* "*ESR?", the register read of the service-request handler
CmdEsr == <<"*", "E", "S", "R", "?">>

\* "SYSTem:ERRor:ALL?", the error-queue drain of the handler
CmdErrAll == <<"S", "Y", "S", "T", "e", "m", ":", "E", "R", "R", "o", "r", ":", "A", "L", "L", "?">>

\* the mnemonic produced by cmd.build_cmd(): "ABC"
Mnemonics == {<<"A", "B", "C">>}

\* argument strings produced by _build_arg_str
ArgStrs == {<<"1">>}

\* "Undefined header"
MsgUndefinedHeader == <<"U", "n", "d", "e", "f", "i", "n", "e", "d", " ", "h", "e", "a", "d", "e", "r">>

\* "Data out of range;ABC 1": a message that embeds the text of the command "ABC 1"
MsgEmbedsCmd == <<"D", "a", "t", "a", " ", "o", "u", "t", " ", "o", "f", " ", "r", "a", "n", "g", "e", ";", "A", "B", "C", " ", "1">>

\* a message of two lines
MsgTwoLines == <<"Q", "u", "e", "u", "e", " ", "o", "v", "e", "r", "f", "l", "o", "w", NL, "l", "o", "s", "t">>

\* a message with an embedded quoted substring
MsgQuoted == <<"B", "a", "d", " ", DQ, "x", DQ>>

\* a message of three lines
MsgThreeLines == <<"a", NL, "b", NL, "c">>

\* a response of the instrument that holds no error record
RawGarbage == <<"?">>

RecUndefined == [code |-> 0 - 113, msg |-> MsgUndefinedHeader]

RecEmbedsCmd == [code |-> 0 - 222, msg |-> MsgEmbedsCmd]

RecTwoLines == [code |-> 0 - 350, msg |-> MsgTwoLines]

RecQuoted == [code |-> 0 - 151, msg |-> MsgQuoted]

RecThreeLines == [code |-> 7, msg |-> MsgThreeLines]

\* the text the instrument sends for a list of error records: code,"message" joined by commas
RECURSIVE Render(_)
Render(recs) ==
  IF recs = <<>> THEN <<>>
  ELSE IntToText(Head(recs).code) \o <<",", DQ>> \o Head(recs).msg \o <<DQ>>
       \o (IF Len(recs) > 1 THEN <<",">> ELSE <<>>) \o Render(Tail(recs))

\* the lists of records the instrument reports in one drain
DeviceRecordLists ==
  { <<RecUndefined>>, <<RecEmbedsCmd, RecUndefined>>, <<RecTwoLines>>,
    <<RecQuoted>>, <<RecThreeLines>> }

\* what the instrument answers to SYSTem:ERRor:ALL?: the records it holds and the text sent
DeviceOutputs ==
  { [recs |-> r, text |-> Render(r)] : r \in DeviceRecordLists }
  \cup { [recs |-> <<>>, text |-> RawGarbage] }

\* status bytes read by read_stb: bit 2 (4) error queue not empty, bit 5 (32) event status
StbValues == {0, 4, 32, 100}

\* the value of the event status register returned by *ESR?
EsrValues == {16}

\* the places in the user's program that call write, query or init
Sites == {1}

\* stb & mask # 0 for a one-bit mask
BitSet(stb, mask) == (stb \div mask) % 2 = 1

(***************************************************************************)
(* LimitedCapacityDict: an ordered dictionary, oldest entry first, as a    *)
(* sequence of [key, value] entries.  max_len is <<>> for None and <<n>>   *)
(* for the integer n.                                                      *)
(***************************************************************************)
\* the capacity of the history created by Instrument.__init__
DefaultMaxLen == 500

\* Python truth value of max_len: None and 0 are false
Truthy(ml) == ml # <<>> /\ ml[1] # 0

\* key in self
DictHas(d, k) == \E i \in 1..Len(d) : d[i].key = k

\* del self[key]
DictDel(d, k) == SelectSeq(d, LAMBDA e : e.key # k)

\* _check_len that keeps one entry too many
CheckLen_OffByOne(d, ml) ==
  IF Truthy(ml) /\ ml[1] + 1 < Len(d) THEN Drop(d, Len(d) - ml[1]) ELSE d

\* _check_len that deletes the newest keys instead of the oldest
CheckLen_EvictsNewest(d, ml) ==
  IF Truthy(ml) /\ ml[1] < Len(d) THEN SubSeq(d, 1, ml[1]) ELSE d

\* LimitedCapacityDict._check_len: delete the len - max_len oldest keys
CheckLen(d, ml) ==
  IF Truthy(ml) /\ ml[1] < Len(d) THEN Drop(d, Len(d) - ml[1] + 1) ELSE d

\* __setitem__ that overwrites the value of an existing key where it stands
SetItem_InPlace(d, ml, k, v) ==
  IF DictHas(d, k)
  THEN [i \in 1..Len(d) |-> IF d[i].key = k THEN [key |-> k, value |-> v] ELSE d[i]]
  ELSE CheckLen(Append(d, [key |-> k, value |-> v]), ml)

\* LimitedCapacityDict.__setitem__
SetItem(d, ml, k, v) ==
  LET d1 == IF DictHas(d, k) THEN DictDel(d, k) ELSE d
  IN CheckLen(Append(d1, [key |-> k, value |-> v]), ml)

\* the value None of a stack
NoStack == [present |-> FALSE, frames |-> <<>>]

\* dict.get(key): the stored stack, or None
DictGet(d, k) ==
  IF DictHas(d, k) THEN (CHOOSE e \in {d[i] : i \in 1..Len(d)} : e.key = k).value
  ELSE NoStack

(***************************************************************************)
(* Threads and the state of the Instrument.                                *)
(***************************************************************************)
Callers == {"c1", "c2"}

CB == "cb"

Threads == Callers \cup {CB}

Free == "free"

VARIABLES
  visa_lock,          \* Instrument._visa_lock: its holder, or Free
  in_callback,        \* Instrument._in_callback: its holder, or Free
  error_queue,        \* Instrument.error_queue, oldest first
  event_queue,        \* Instrument.event_queue, oldest first
  command_cnt,        \* Instrument.command_cnt
  cmd_debug,          \* Instrument._cmd_debug
  max_len,            \* Instrument._cmd_debug._max_len
  exception_on_error, \* Instrument.exception_on_error
  handler_installed,  \* the service-request handler is installed and enabled
  pc,                 \* position of each thread
  op,                 \* the operation on whose behalf a thread runs _call_visa
  arg,                \* the command text a thread passes to _call_visa
  site,               \* the call site of the call a thread is running (0: none)
  tmp,                \* value of command_cnt read by the thread in "command_cnt += 1"
  exc,                \* outcome (return or exception) of the thread's _call_visa and call
  hnd,                \* local variables of the running handler invocation
  ncalls,             \* calls started so far
  nsrq,               \* service requests delivered so far
  puts,               \* the keys set so far on a LimitedCapacityDict used on its own
  dispatched,         \* history: n commands have executed line 218; stale: one of them
                      \* stored the counter from a value that was no longer current;
                      \* last: each command text that executed line 219, with the stack
                      \* of its latest dispatch
  last_number,        \* SCPICmdFormatter.last_number of a formatter used on its own
  fmt_call,           \* history: the latest vformat call on that formatter and its outcome
  field_call,         \* a format_field call: its value and spec, and its outcome once made
  req,                \* per thread: the arguments of the write or query call under way
  cmd_cnt,            \* per domain object (a Trace, a Marker): its _cmd_cnt, <<>> for None
  access,             \* the property access under way on a domain object: its stage
                      \* and object; seen: per object, the number of commands that had
                      \* been dispatched when its latest property command ended
  resize              \* history: the latest assignment to max_len of a LimitedCapacityDict
                      \* used on its own: the capacity and the size it found

vars == <<visa_lock, in_callback, error_queue, event_queue, command_cnt, cmd_debug,
          max_len, exception_on_error, handler_installed, pc, op, arg, site, tmp,
          exc, hnd, ncalls, nsrq, puts, dispatched,
          last_number, fmt_call, field_call, req, cmd_cnt, access, resize>>

\* no assignment to max_len made so far
NoResize == [done |-> FALSE, from |-> <<>>, size |-> 0]

\* outcomes of a call
NoOutcome == [kind |-> "none", err |-> [code |-> 0, msg |-> <<>>, stack |-> NoStack]]

Outcome(k) == [NoOutcome EXCEPT !.kind = k]

\* an InstrumentError taken from the error queue and raised
Raised(e) == [kind |-> "InstrumentError", err |-> e]

\* no vformat call has been made yet
NoCall == [n |-> 0, start |-> 0, autos |-> 0, ok |-> TRUE, out |-> <<>>]

\* no format_field call is under way
NoField == [value |-> [i |-> 0], spec |-> <<>>, done |-> FALSE, ok |-> TRUE, out |-> <<>>]

\* kwargs holds no "fmt"
NoFmt == [given |-> FALSE, fields |-> <<>>]

\* kwargs["fmt"] is the template with the given fields; no fields: the empty string
Fmt(fields) == [given |-> TRUE, fields |-> fields]

\* the arguments of a call: cmd.args, *args, kwargs["fmt"] and kwargs["quote"]; sent
\* records that the call has entered the transport primitive for its command
Req(lits, args, fmt, quote) ==
  [lits |-> lits, args |-> args, fmt |-> fmt, quote |-> quote, sent |-> FALSE]

\* no call is under way
NoReq == Req({}, <<>>, NoFmt, FALSE)

\* the domain objects: a Trace, and a Marker of another trace
Objs == {"trace", "marker"}

HndInit ==
  [stb |-> 0, esr |-> 0, recs |-> <<>>, text |-> <<>>, drained |-> FALSE,
   todo |-> <<>>, cnt |-> 0, pushed |-> <<>>]

\* the state after Instrument.__init__, with a history of capacity ml, next to a new
\* SCPICmdFormatter and the format_field call fc
InitState(ml, fc) ==
  /\ visa_lock = Free
  /\ in_callback = Free
  /\ error_queue = <<>>
  /\ event_queue = <<>>
  /\ command_cnt = 0
  /\ cmd_debug = <<>>
  /\ max_len = ml
  /\ exception_on_error \in BOOLEAN
  /\ handler_installed = FALSE
  /\ pc = [t \in Threads |-> "idle"]
  /\ op = [t \in Threads |-> "none"]
  /\ arg = [t \in Threads |-> <<>>]
  /\ site = [t \in Threads |-> 0]
  /\ tmp = [t \in Threads |-> 0]
  /\ exc = [t \in Threads |-> NoOutcome]
  /\ hnd = HndInit
  /\ ncalls = 0
  /\ nsrq = 0
  /\ puts = <<>>
  /\ dispatched = [n |-> 0, stale |-> FALSE, last |-> {}]
  /\ last_number = 0
  /\ fmt_call = NoCall
  /\ field_call = fc
  /\ req = [t \in Threads |-> NoReq]
  /\ cmd_cnt = [o \in Objs |-> <<>>]
  /\ access = [stage |-> "none", obj |-> "trace", seen |-> [o \in Objs |-> 0]]
  /\ resize = NoResize

\* the state after Instrument.__init__, with a history of capacity ml
InitWith(ml) == InitState(ml, NoField)

Init == InitWith(<<DefaultMaxLen>>)

(***************************************************************************)
(* traceback.extract_stack()[:-2] inside _call_visa.                       *)
(***************************************************************************)
\* a stack frame: the function and, for the frames of a call, the site it was called from
Frame(fn, c) == [fn |-> fn, site |-> c]

\* the frames of thread t, outermost first, when it executes line 219 of _call_visa
ExtractStack(t) ==
  CASE op[t] = "write" -> <<Frame("caller", site[t]), Frame("write", site[t]),
                            Frame("_call_visa", site[t])>>
    [] op[t] = "query" -> <<Frame("caller", site[t]), Frame("query", site[t]),
                            Frame("_call_visa", site[t])>>
    [] op[t] = "init"  -> <<Frame("caller", site[t]), Frame("init", site[t]),
                            Frame("_write", site[t]), Frame("_call_visa", site[t])>>
    [] op[t] = "esr"   -> <<Frame("_service_request_handler", 0), Frame("_call_visa", 0)>>
    [] OTHER           -> <<Frame("_service_request_handler", 0), Frame("_get_error_queue", 0),
                            Frame("_query", 0), Frame("_call_visa", 0)>>

\* frames[:-2]
DropLast2(frames) == SubSeq(frames, 1, Len(frames) - 2)

StoredStack(t) == [present |-> TRUE, frames |-> DropLast2(ExtractStack(t))]

(***************************************************************************)
(* SCPICmdFormatter: the values it formats, format_field and vformat.      *)
(***************************************************************************)
\* the values handed to the formatter: integers, strings and lists
IntVal(n) == [i |-> n]

StrVal(chars) == [s |-> chars]

ListVal(elems) == [l |-> elems]

IsInt(v) == "i" \in DOMAIN v

IsStr(v) == "s" \in DOMAIN v

IsList(v) == "l" \in DOMAIN v

\* the single quote and the separator of the list unpack
SQ == "'"

Sep == <<",", " ">>

\* the result of a formatting step: the text, or an exception
Formatted(text) == [ok |-> TRUE, out |-> text]

FormatError == [ok |-> FALSE, out |-> <<>>]

\* sep.join(texts)
RECURSIVE JoinTexts(_, _)
JoinTexts(texts, sep) ==
  IF texts = <<>> THEN <<>>
  ELSE IF Len(texts) = 1 THEN texts[1]
  ELSE texts[1] \o sep \o JoinTexts(Tail(texts), sep)

\* repr() of a value
RECURSIVE ReprOf(_)
ReprOf(v) ==
  IF IsInt(v) THEN IntToText(v.i)
  ELSE IF IsStr(v) THEN <<SQ>> \o v.s \o <<SQ>>
  ELSE <<"[">> \o JoinTexts([k \in 1..Len(v.l) |-> ReprOf(v.l[k])], Sep) \o <<"]">>

\* str() of a value
StrOf(v) == IF IsStr(v) THEN v.s ELSE ReprOf(v)

\* the elements a value yields when iterated: those of a list, the characters of a string
Elements(v) ==
  IF IsList(v) THEN v.l ELSE [k \in 1..Len(v.s) |-> StrVal(<<v.s[k]>>)]

\* string.Formatter.format_field, i.e. format(value, format_spec), for the specs "",
\* "s" and "d"
BaseFormat(value, format_spec) ==
  IF format_spec = <<>> THEN Formatted(StrOf(value))
  ELSE IF format_spec = <<"s">> /\ IsStr(value) THEN Formatted(value.s)
  ELSE IF format_spec = <<"d">> /\ IsInt(value) THEN Formatted(IntToText(value.i))
  ELSE FormatError

\* a join that puts the formatted elements in reverse order
JoinResults_Reversed(rs) ==
  IF \E k \in 1..Len(rs) : ~rs[k].ok THEN FormatError
  ELSE Formatted(JoinTexts([k \in 1..Len(rs) |-> rs[Len(rs) + 1 - k].out], Sep))

\* line 75: ", ".join(map(...)) over the formatted elements; an element that raises
\* ends the call
JoinResults(rs) ==
  IF \E k \in 1..Len(rs) : ~rs[k].ok THEN FormatError
  ELSE Formatted(JoinTexts([k \in 1..Len(rs) |-> rs[k].out], Sep))

\* line 78: "'" + ... + "'"
Quoted(r) == IF r.ok THEN Formatted(<<SQ>> \o r.out \o <<SQ>>) ELSE r

\* SCPICmdFormatter.format_field, lines 71-82
RECURSIVE FormatField(_, _)
FormatField(value, format_spec) ==
  IF format_spec = <<>> THEN BaseFormat(value, format_spec)
  ELSE LET last == format_spec[Len(format_spec)]
           rest == SubSeq(format_spec, 1, Len(format_spec) - 1)
       IN IF last = "*"
          THEN IF IsInt(value) THEN FormatError
               ELSE JoinResults([k \in 1..Len(Elements(value)) |->
                                   FormatField(Elements(value)[k], rest)])
          ELSE IF last = "q" THEN Quoted(FormatField(value, Append(rest, "s")))
          ELSE IF last = "s" THEN BaseFormat(StrVal(StrOf(value)), format_spec)
          ELSE BaseFormat(value, format_spec)

\* a replacement field of a template, with the literal text that precedes it; its name
\* is empty (auto) or the index idx
Field(lit, auto, idx, spec) == [lit |-> lit, auto |-> auto, idx |-> idx, spec |-> spec]

\* string.Formatter.vformat over the fields of the template, with get_value of lines
\* 65-69: an empty name takes last_number and increments it; number is last_number
RECURSIVE FormatFields(_, _, _, _)
FormatFields(fields, args, number, out) ==
  IF fields = <<>> THEN [ok |-> TRUE, out |-> out, number |-> number]
  ELSE LET f == Head(fields)
           key == IF f.auto THEN number ELSE f.idx
           num == IF f.auto THEN number + 1 ELSE number
       IN IF key >= Len(args) THEN [ok |-> FALSE, out |-> <<>>, number |-> num]
          ELSE LET r == FormatField(args[key + 1], f.spec)
               IN IF ~r.ok THEN [ok |-> FALSE, out |-> <<>>, number |-> num]
                  ELSE FormatFields(Tail(fields), args, num, out \o f.lit \o r.out)

(***************************************************************************)
(* _build_arg_str: the argument string of a write or query call.           *)
(***************************************************************************)
\* the entry of cmd.args that stands for a quoted string argument
StringLiteral == "'string'"

\* line 242: "{:q*}"
QuotedList == <<Field(<<>>, TRUE, 0, <<"q", "*">>)>>

\* line 244: "{:s*}"
PlainList == <<Field(<<>>, TRUE, 0, <<"s", "*">>)>>

\* a choice of the default template that looks at the accepted arguments only
WantsQuotes_LiteralOnly(r) == StringLiteral \in r.lits

\* line 241: kwargs.get("quote") or "'string'" in cmd.args
WantsQuotes(r) == r.quote \/ StringLiteral \in r.lits

\* a builder that lets a template that cannot be formatted give the empty text
BuildArgStr_Lenient(r) ==
  LET b == IF r.fmt.given /\ r.fmt.fields # <<>>
           THEN FormatFields(r.fmt.fields, r.args, 0, <<>>)
           ELSE FormatFields(IF WantsQuotes(r) THEN QuotedList ELSE PlainList,
                             <<ListVal(r.args)>>, 0, <<>>)
  IN [b EXCEPT !.ok = TRUE]

\* _build_arg_str, lines 237-245, with a new SCPICmdFormatter: an absent or empty
\* template is replaced by a default one applied to the tuple of the arguments
BuildArgStr(r) ==
  IF r.fmt.given /\ r.fmt.fields # <<>>
  THEN FormatFields(r.fmt.fields, r.args, 0, <<>>)
  ELSE FormatFields(IF WantsQuotes(r) THEN QuotedList ELSE PlainList,
                    <<ListVal(r.args)>>, 0, <<>>)

\* the well-formed call made in the specifications of the dispatcher: write/query(cmd, 1)
GoodReqs == { Req({}, <<IntVal(1)>>, NoFmt, FALSE) }

\* that call, the same with fmt="{:d*}" (a sequence spec on an integer), and a call with
\* fmt="{1}" and no argument (an unknown field)
CallReqs ==
  GoodReqs \cup
  { Req({}, <<IntVal(1)>>, Fmt(<<Field(<<>>, TRUE, 0, <<"d", "*">>)>>), FALSE),
    Req({}, <<>>, Fmt(<<Field(<<>>, FALSE, 1, <<>>)>>), FALSE) }

(***************************************************************************)
(* Caller threads: write, query, init.                                     *)
(***************************************************************************)
\* write(), line 259: build the command text, which may raise; then wait for the IO lock
StartWrite(t, maxc, reqs, sites) ==
  /\ pc[t] = "idle" /\ ncalls < maxc
  /\ \E mn \in Mnemonics, r \in reqs :
       LET b == BuildArgStr(r)
       IN /\ req' = [req EXCEPT ![t] = r]
          /\ IF b.ok
             THEN /\ arg' = [arg EXCEPT ![t] = mn \o <<" ">> \o b.out]
                  /\ pc' = [pc EXCEPT ![t] = "w_lock"]
                  /\ exc' = [exc EXCEPT ![t] = NoOutcome]
             ELSE /\ arg' = [arg EXCEPT ![t] = <<>>]
                  /\ pc' = [pc EXCEPT ![t] = "done"]
                  /\ exc' = [exc EXCEPT ![t] = Outcome("FormatError")]
  /\ op' = [op EXCEPT ![t] = "write"]
  /\ ncalls' = ncalls + 1
  /\ \E c \in sites : site' = [site EXCEPT ![t] = c]
  /\ UNCHANGED <<visa_lock, in_callback, error_queue, event_queue, command_cnt, cmd_debug,
                 max_len, exception_on_error, handler_installed, tmp, hnd, nsrq, puts, dispatched,
                 last_number, fmt_call, field_call, cmd_cnt, access, resize>>

\* query(), line 277: build the command text, which may raise; then wait for the IO lock
StartQuery(t, maxc, reqs, sites) ==
  /\ pc[t] = "idle" /\ ncalls < maxc
  /\ \E mn \in Mnemonics, r \in reqs :
       LET b == BuildArgStr(r)
       IN /\ req' = [req EXCEPT ![t] = r]
          /\ IF b.ok
             THEN /\ arg' = [arg EXCEPT ![t] = mn \o <<"?", " ">> \o b.out]
                  /\ pc' = [pc EXCEPT ![t] = "q_lock"]
                  /\ exc' = [exc EXCEPT ![t] = NoOutcome]
             ELSE /\ arg' = [arg EXCEPT ![t] = <<>>]
                  /\ pc' = [pc EXCEPT ![t] = "done"]
                  /\ exc' = [exc EXCEPT ![t] = Outcome("FormatError")]
  /\ op' = [op EXCEPT ![t] = "query"]
  /\ ncalls' = ncalls + 1
  /\ \E c \in sites : site' = [site EXCEPT ![t] = c]
  /\ UNCHANGED <<visa_lock, in_callback, error_queue, event_queue, command_cnt, cmd_debug,
                 max_len, exception_on_error, handler_installed, tmp, hnd, nsrq, puts, dispatched,
                 last_number, fmt_call, field_call, cmd_cnt, access, resize>>

\* init(), line 152: self._write(...) enters _call_visa without taking the IO lock
StartInit(t, maxc, sites) ==
  /\ pc[t] = "idle" /\ ncalls < maxc
  /\ arg' = [arg EXCEPT ![t] = CmdInit]
  /\ op' = [op EXCEPT ![t] = "init"]
  /\ pc' = [pc EXCEPT ![t] = "cv_empty"]
  /\ ncalls' = ncalls + 1
  /\ \E c \in sites : site' = [site EXCEPT ![t] = c]
  /\ exc' = [exc EXCEPT ![t] = NoOutcome]
  /\ UNCHANGED <<visa_lock, in_callback, error_queue, event_queue, command_cnt, cmd_debug,
                 max_len, exception_on_error, handler_installed, tmp, hnd, nsrq, puts, dispatched,
                 last_number, fmt_call, field_call, req, cmd_cnt, access, resize>>

\* "with self._visa_lock:" of write (line 260) and query (line 279)
AcquireIO(t) ==
  /\ pc[t] \in {"w_lock", "q_lock"}
  /\ visa_lock = Free
  /\ visa_lock' = t
  /\ pc' = [pc EXCEPT ![t] = "cv_empty"]
  /\ UNCHANGED <<in_callback, error_queue, event_queue, command_cnt, cmd_debug, max_len,
                 exception_on_error, handler_installed, op, arg, site, tmp, exc,
                 hnd, ncalls, nsrq, puts, dispatched,
                 last_number, fmt_call, field_call, req, cmd_cnt, access, resize>>

(***************************************************************************)
(* _call_visa and check_error_queue, run by callers and by the handler.    *)
(***************************************************************************)
\* where an exception raised inside _call_visa takes thread t
ExitRaise(t, out) ==
  /\ pc' = [pc EXCEPT ![t] =
              CASE op[t] = "write" -> "w_unlock"
                [] op[t] = "query" -> "q_unlock"
                [] op[t] = "init" -> "done"
                [] OTHER -> "h_unguard"]
  /\ exc' = [exc EXCEPT ![t] = out]

\* check_error_queue that does not test exception_on_error
CheckEmpty_IgnoresFlag(t) ==
  /\ pc[t] = "cv_empty"
  /\ pc' = [pc EXCEPT ![t] = IF error_queue # <<>> THEN "cv_probe" ELSE "cv_read"]
  /\ UNCHANGED <<visa_lock, in_callback, error_queue, event_queue, command_cnt, cmd_debug,
                 max_len, exception_on_error, handler_installed, op, arg, site, tmp, exc,
                 hnd, ncalls, nsrq, puts, dispatched,
                 last_number, fmt_call, field_call, req, cmd_cnt, access, resize>>

\* line 209: "not self.error_queue.empty() and self.exception_on_error"
CheckEmpty(t) ==
  /\ pc[t] = "cv_empty"
  /\ pc' = [pc EXCEPT ![t] = IF error_queue # <<>> /\ exception_on_error
                              THEN "cv_probe" ELSE "cv_read"]
  /\ UNCHANGED <<visa_lock, in_callback, error_queue, event_queue, command_cnt, cmd_debug,
                 max_len, exception_on_error, handler_installed, op, arg, site, tmp, exc, hnd, ncalls, nsrq, puts, dispatched,
                 last_number, fmt_call, field_call, req, cmd_cnt, access, resize>>

\* a probe that waits until the callback guard is free
Probe_Blocking(t) ==
  /\ pc[t] = "cv_probe"
  /\ in_callback = Free
  /\ in_callback' = t
  /\ pc' = [pc EXCEPT ![t] = "cv_release"]
  /\ UNCHANGED <<visa_lock, error_queue, event_queue, command_cnt, cmd_debug, max_len,
                 exception_on_error, handler_installed, op, arg, site, tmp, exc,
                 hnd, ncalls, nsrq, puts, dispatched,
                 last_number, fmt_call, field_call, req, cmd_cnt, access, resize>>

\* a probe of the callback guard that succeeds when the probing thread holds the guard
\* itself (a reentrant lock)
Probe_Reentrant(t) ==
  /\ pc[t] = "cv_probe"
  /\ IF in_callback \in {Free, t}
     THEN /\ in_callback' = t
          /\ pc' = [pc EXCEPT ![t] = "cv_release"]
     ELSE /\ in_callback' = in_callback
          /\ pc' = [pc EXCEPT ![t] = "cv_read"]
  /\ UNCHANGED <<visa_lock, error_queue, event_queue, command_cnt, cmd_debug, max_len,
                 exception_on_error, handler_installed, op, arg, site, tmp, exc,
                 hnd, ncalls, nsrq, puts, dispatched,
                 last_number, fmt_call, field_call, req, cmd_cnt, access, resize>>

\* line 209: "self._in_callback.acquire(False)"
Probe(t) ==
  /\ pc[t] = "cv_probe"
  /\ IF in_callback = Free
     THEN /\ in_callback' = t
          /\ pc' = [pc EXCEPT ![t] = "cv_release"]
     ELSE /\ in_callback' = in_callback
          /\ pc' = [pc EXCEPT ![t] = "cv_read"]
  /\ UNCHANGED <<visa_lock, error_queue, event_queue, command_cnt, cmd_debug, max_len,
                 exception_on_error, handler_installed, op, arg, site, tmp, exc,
                 hnd, ncalls, nsrq, puts, dispatched,
                 last_number, fmt_call, field_call, req, cmd_cnt, access, resize>>

\* line 211: "self._in_callback.release()"
ReleaseProbe(t) ==
  /\ pc[t] = "cv_release"
  /\ in_callback' = Free
  /\ pc' = [pc EXCEPT ![t] = "cv_get"]
  /\ UNCHANGED <<visa_lock, error_queue, event_queue, command_cnt, cmd_debug, max_len,
                 exception_on_error, handler_installed, op, arg, site, tmp, exc,
                 hnd, ncalls, nsrq, puts, dispatched,
                 last_number, fmt_call, field_call, req, cmd_cnt, access, resize>>

\* a raise that counts the call as a command
GetNoBlock_CountsCall(t) ==
  /\ pc[t] = "cv_get"
  /\ IF error_queue # <<>>
     THEN /\ error_queue' = Tail(error_queue)
          /\ ExitRaise(t, Raised(Head(error_queue)))
     ELSE /\ UNCHANGED error_queue
          /\ ExitRaise(t, Outcome("QueueEmpty"))
  /\ command_cnt' = command_cnt + 1
  /\ UNCHANGED <<visa_lock, in_callback, event_queue, cmd_debug, max_len,
                 exception_on_error, handler_installed, op, arg, site, tmp, hnd, ncalls,
                 nsrq, puts, dispatched,
                 last_number, fmt_call, field_call, req, cmd_cnt, access, resize>>

\* line 213: "raise self.error_queue.get(block=False)"
GetNoBlock(t) ==
  /\ pc[t] = "cv_get"
  /\ IF error_queue # <<>>
     THEN /\ error_queue' = Tail(error_queue)
          /\ ExitRaise(t, Raised(Head(error_queue)))
     ELSE /\ UNCHANGED error_queue
          /\ ExitRaise(t, Outcome("QueueEmpty"))
  /\ UNCHANGED <<visa_lock, in_callback, event_queue, command_cnt, cmd_debug, max_len,
                 exception_on_error, handler_installed, op, arg, site, tmp, hnd, ncalls,
                 nsrq, puts, dispatched,
                 last_number, fmt_call, field_call, req, cmd_cnt, access, resize>>

\* line 218, "self.command_cnt += 1": the load of the attribute
CntRead(t) ==
  /\ pc[t] = "cv_read"
  /\ tmp' = [tmp EXCEPT ![t] = command_cnt]
  /\ pc' = [pc EXCEPT ![t] = "cv_write"]
  /\ UNCHANGED <<visa_lock, in_callback, error_queue, event_queue, command_cnt, cmd_debug,
                 max_len, exception_on_error, handler_installed, op, arg, site, exc, hnd, ncalls, nsrq, puts, dispatched,
                 last_number, fmt_call, field_call, req, cmd_cnt, access, resize>>

\* an increment that adds two
Incremented_Twice(v) == v + 2

\* the value stored by "self.command_cnt += 1" after loading v
Incremented(v) == v + 1

\* line 218, "self.command_cnt += 1": the store of the attribute
CntWrite(t) ==
  /\ pc[t] = "cv_write"
  /\ command_cnt' = Incremented(tmp[t])
  /\ tmp' = [tmp EXCEPT ![t] = 0]
  /\ dispatched' = [dispatched EXCEPT !.n = dispatched.n + 1,
                                       !.stale = dispatched.stale \/ tmp[t] # command_cnt]
  /\ pc' = [pc EXCEPT ![t] = "cv_debug"]
  /\ UNCHANGED <<visa_lock, in_callback, error_queue, event_queue, cmd_debug, max_len,
                 exception_on_error, handler_installed, op, arg, site, exc,
                 hnd, ncalls, nsrq, puts, last_number, fmt_call, field_call, req, cmd_cnt, access, resize>>

\* lines 219-223: record the stack in the history and enter the transport primitive
DebugAndCall(t) ==
  /\ pc[t] = "cv_debug"
  /\ cmd_debug' = SetItem(cmd_debug, max_len, arg[t], StoredStack(t))
  /\ pc' = [pc EXCEPT ![t] = "io"]
  /\ req' = IF t \in Callers THEN [req EXCEPT ![t].sent = TRUE] ELSE req
  /\ dispatched' = [dispatched EXCEPT !.last =
                      {e \in dispatched.last : e.key # arg[t]}
                        \cup {[key |-> arg[t], value |-> StoredStack(t)]}]
  /\ UNCHANGED <<visa_lock, in_callback, error_queue, event_queue, command_cnt, max_len,
                 exception_on_error, handler_installed, op, arg, site, tmp, exc,
                 hnd, ncalls, nsrq, puts,
                 last_number, fmt_call, field_call, cmd_cnt, access, resize>>

\* line 223: the transport primitive of a write, query or init fails (lines 224-227)
\* or returns (line 234)
IoEndCaller(t) ==
  /\ pc[t] = "io" /\ t \in Callers
  /\ \/ \E k \in {"Timeout", "IOError"} : ExitRaise(t, Outcome(k))
     \/ /\ pc' = [pc EXCEPT ![t] = CASE op[t] = "write" -> "w_unlock"
                                     [] op[t] = "query" -> "q_unlock"
                                     [] OTHER -> "i_install"]
        /\ exc' = [exc EXCEPT ![t] = Outcome("ok")]
  /\ UNCHANGED <<visa_lock, in_callback, error_queue, event_queue, command_cnt, cmd_debug,
                 max_len, exception_on_error, handler_installed, op, arg, site, tmp, hnd,
                 ncalls, nsrq, puts, dispatched,
                 last_number, fmt_call, field_call, req, cmd_cnt, access, resize>>

\* a write that keeps the IO lock when _call_visa raised
WriteUnlock_LeakOnError(t) ==
  /\ pc[t] = "w_unlock"
  /\ visa_lock' = IF exc[t].kind = "ok" THEN Free ELSE visa_lock
  /\ pc' = [pc EXCEPT ![t] = "done"]
  /\ UNCHANGED <<in_callback, error_queue, event_queue, command_cnt, cmd_debug, max_len,
                 exception_on_error, handler_installed, op, arg, site, tmp, exc, hnd,
                 ncalls, nsrq, puts, dispatched,
                 last_number, fmt_call, field_call, req, cmd_cnt, access, resize>>

\* a write that waits on the error queue after a timeout, as query does
WriteUnlock_GraceOnTimeout(t) ==
  /\ pc[t] = "w_unlock"
  /\ visa_lock' = Free
  /\ pc' = [pc EXCEPT ![t] = IF exc[t].kind = "Timeout" /\ exception_on_error
                              THEN "q_grace" ELSE "done"]
  /\ UNCHANGED <<in_callback, error_queue, event_queue, command_cnt, cmd_debug, max_len,
                 exception_on_error, handler_installed, op, arg, site, tmp, exc, hnd,
                 ncalls, nsrq, puts, dispatched,
                 last_number, fmt_call, field_call, req, cmd_cnt, access, resize>>

\* write(), line 260: leaving the with block releases the IO lock; the call ends
WriteUnlock(t) ==
  /\ pc[t] = "w_unlock"
  /\ visa_lock' = Free
  /\ pc' = [pc EXCEPT ![t] = "done"]
  /\ UNCHANGED <<in_callback, error_queue, event_queue, command_cnt, cmd_debug, max_len,
                 exception_on_error, handler_installed, op, arg, site, tmp, exc, hnd,
                 ncalls, nsrq, puts, dispatched,
                 last_number, fmt_call, field_call, req, cmd_cnt, access, resize>>

\* a query that re-raises a timeout without waiting on the error queue
QueryUnlock_NoGrace(t) ==
  /\ pc[t] = "q_unlock"
  /\ visa_lock' = Free
  /\ pc' = [pc EXCEPT ![t] = "done"]
  /\ UNCHANGED <<in_callback, error_queue, event_queue, command_cnt, cmd_debug, max_len,
                 exception_on_error, handler_installed, op, arg, site, tmp, exc, hnd,
                 ncalls, nsrq, puts, dispatched,
                 last_number, fmt_call, field_call, req, cmd_cnt, access, resize>>

\* a query that waits on the error queue after any transport failure, timeout or not
QueryUnlock_GraceOnAnyError(t) ==
  /\ pc[t] = "q_unlock"
  /\ visa_lock' = Free
  /\ pc' = [pc EXCEPT ![t] = IF exc[t].kind \in {"Timeout", "IOError"} /\ exception_on_error
                              THEN "q_grace" ELSE "done"]
  /\ UNCHANGED <<in_callback, error_queue, event_queue, command_cnt, cmd_debug, max_len,
                 exception_on_error, handler_installed, op, arg, site, tmp, exc, hnd,
                 ncalls, nsrq, puts, dispatched,
                 last_number, fmt_call, field_call, req, cmd_cnt, access, resize>>

\* QueryUnlock with the grace-period wait placed inside the with block: the IO lock is
\* kept while the query waits for an error
QueryUnlock_WaitsInsideLock(t) ==
  /\ pc[t] = "q_unlock"
  /\ visa_lock' = IF exc[t].kind = "Timeout" /\ exception_on_error THEN visa_lock ELSE Free
  /\ pc' = [pc EXCEPT ![t] = IF exc[t].kind = "Timeout" /\ exception_on_error
                              THEN "q_grace" ELSE "done"]
  /\ UNCHANGED <<in_callback, error_queue, event_queue, command_cnt, cmd_debug, max_len,
                 exception_on_error, handler_installed, op, arg, site, tmp, exc, hnd,
                 ncalls, nsrq, puts, dispatched,
                 last_number, fmt_call, field_call, req, cmd_cnt, access, resize>>

\* query(), lines 279-283: leaving the with block releases the IO lock; a timeout with
\* error raising enabled goes on to wait on the error queue, anything else ends the call
QueryUnlock(t) ==
  /\ pc[t] = "q_unlock"
  /\ visa_lock' = Free
  /\ pc' = [pc EXCEPT ![t] = IF exc[t].kind = "Timeout" /\ exception_on_error
                              THEN "q_grace" ELSE "done"]
  /\ UNCHANGED <<in_callback, error_queue, event_queue, command_cnt, cmd_debug, max_len,
                 exception_on_error, handler_installed, op, arg, site, tmp, exc, hnd,
                 ncalls, nsrq, puts, dispatched,
                 last_number, fmt_call, field_call, req, cmd_cnt, access, resize>>

\* a grace-period wait that takes the error from the queue and still raises the timeout
GraceGet_Swallows(t) ==
  /\ pc[t] = "q_grace"
  /\ error_queue # <<>>
  /\ error_queue' = Tail(error_queue)
  /\ pc' = [pc EXCEPT ![t] = "done"]
  /\ UNCHANGED <<visa_lock, in_callback, event_queue, command_cnt, cmd_debug, max_len,
                 exception_on_error, handler_installed, op, arg, site, tmp, exc, hnd,
                 ncalls, nsrq, puts, dispatched,
                 last_number, fmt_call, field_call, req, cmd_cnt, access, resize>>

\* query(), line 285: error_queue.get(timeout=1) returns an error, which is raised
GraceGet(t) ==
  /\ pc[t] = "q_grace"
  /\ error_queue # <<>>
  /\ error_queue' = Tail(error_queue)
  /\ exc' = [exc EXCEPT ![t] = Raised(Head(error_queue))]
  /\ pc' = [pc EXCEPT ![t] = "done"]
  /\ UNCHANGED <<visa_lock, in_callback, event_queue, command_cnt, cmd_debug, max_len,
                 exception_on_error, handler_installed, op, arg, site, tmp, hnd,
                 ncalls, nsrq, puts, dispatched,
                 last_number, fmt_call, field_call, req, cmd_cnt, access, resize>>

\* query(), lines 286-288: the wait ends with Queue.Empty and the timeout is re-raised
GraceExpire(t) ==
  /\ pc[t] = "q_grace"
  /\ error_queue = <<>>
  /\ pc' = [pc EXCEPT ![t] = "done"]
  /\ UNCHANGED <<visa_lock, in_callback, error_queue, event_queue, command_cnt, cmd_debug,
                 max_len, exception_on_error, handler_installed, op, arg, site, tmp, exc,
                 hnd, ncalls, nsrq, puts, dispatched,
                 last_number, fmt_call, field_call, req, cmd_cnt, access, resize>>

\* init(), lines 154-156: install and enable the service-request handler
InstallHandler(t) ==
  /\ pc[t] = "i_install"
  /\ handler_installed' = TRUE
  /\ pc' = [pc EXCEPT ![t] = "done"]
  /\ UNCHANGED <<visa_lock, in_callback, error_queue, event_queue, command_cnt, cmd_debug,
                 max_len, exception_on_error, op, arg, site, tmp, exc, hnd, ncalls, nsrq, puts, dispatched,
                 last_number, fmt_call, field_call, req, cmd_cnt, access, resize>>

\* the call has returned or raised to its caller; the thread is free for the next call
Return(t) ==
  /\ pc[t] = "done"
  /\ pc' = [pc EXCEPT ![t] = "idle"]
  /\ op' = [op EXCEPT ![t] = "none"]
  /\ arg' = [arg EXCEPT ![t] = <<>>]
  /\ site' = [site EXCEPT ![t] = 0]
  /\ exc' = [exc EXCEPT ![t] = NoOutcome]
  /\ req' = [req EXCEPT ![t] = NoReq]
  /\ UNCHANGED <<visa_lock, in_callback, error_queue, event_queue, command_cnt, cmd_debug,
                 max_len, exception_on_error, handler_installed, tmp, hnd, ncalls, nsrq, puts, dispatched,
                 last_number, fmt_call, field_call, cmd_cnt, access, resize>>

(***************************************************************************)
(* The callback thread: _service_request_handler and _get_error_queue.     *)
(***************************************************************************)
\* the VISA library invokes the installed handler (line 169)
Srq(maxs) ==
  /\ pc[CB] = "idle" /\ handler_installed /\ nsrq < maxs
  /\ nsrq' = nsrq + 1
  /\ hnd' = HndInit
  /\ exc' = [exc EXCEPT ![CB] = NoOutcome]
  /\ pc' = [pc EXCEPT ![CB] = "h_lock"]
  /\ UNCHANGED <<visa_lock, in_callback, error_queue, event_queue, command_cnt, cmd_debug,
                 max_len, exception_on_error, handler_installed, op, arg, site, tmp, ncalls, puts, dispatched,
                 last_number, fmt_call, field_call, req, cmd_cnt, access, resize>>

\* line 171: "with self._visa_lock:"
HandlerLock ==
  /\ pc[CB] = "h_lock"
  /\ visa_lock = Free
  /\ visa_lock' = CB
  /\ pc' = [pc EXCEPT ![CB] = "h_guard"]
  /\ UNCHANGED <<in_callback, error_queue, event_queue, command_cnt, cmd_debug, max_len,
                 exception_on_error, handler_installed, op, arg, site, tmp, exc,
                 hnd, ncalls, nsrq, puts, dispatched,
                 last_number, fmt_call, field_call, req, cmd_cnt, access, resize>>

\* lines 172-173: "with self._in_callback:", then read_stb() is entered
HandlerGuard ==
  /\ pc[CB] = "h_guard"
  /\ in_callback = Free
  /\ in_callback' = CB
  /\ pc' = [pc EXCEPT ![CB] = "h_stb"]
  /\ UNCHANGED <<visa_lock, error_queue, event_queue, command_cnt, cmd_debug, max_len,
                 exception_on_error, handler_installed, op, arg, site, tmp, exc,
                 hnd, ncalls, nsrq, puts, dispatched,
                 last_number, fmt_call, field_call, req, cmd_cnt, access, resize>>

\* a status read that issues the register read whatever the status byte is
HandlerStb_ReadsAlways(stbs) ==
  /\ pc[CB] = "h_stb"
  /\ \/ /\ pc' = [pc EXCEPT ![CB] = "h_unguard"]
        /\ exc' = [exc EXCEPT ![CB] = Outcome("IOError")]
        /\ UNCHANGED <<hnd, op, arg>>
     \/ \E stb \in stbs :
          /\ hnd' = [hnd EXCEPT !.stb = stb]
          /\ op' = [op EXCEPT ![CB] = "esr"]
          /\ arg' = [arg EXCEPT ![CB] = CmdEsr]
          /\ pc' = [pc EXCEPT ![CB] = "cv_empty"]
          /\ UNCHANGED exc
  /\ UNCHANGED <<visa_lock, in_callback, error_queue, event_queue, command_cnt, cmd_debug,
                 max_len, exception_on_error, handler_installed, site, tmp,
                 ncalls, nsrq, puts, dispatched,
                 last_number, fmt_call, field_call, req, cmd_cnt, access, resize>>

\* lines 173-177: read_stb() returns the status byte, or fails
HandlerStb(stbs) ==
  /\ pc[CB] = "h_stb"
  /\ \/ /\ pc' = [pc EXCEPT ![CB] = "h_unguard"]
        /\ exc' = [exc EXCEPT ![CB] = Outcome("IOError")]
        /\ UNCHANGED <<hnd, op, arg>>
     \/ \E stb \in stbs :
          IF BitSet(stb, 32)
          THEN /\ hnd' = [hnd EXCEPT !.stb = stb]
               /\ op' = [op EXCEPT ![CB] = "esr"]
               /\ arg' = [arg EXCEPT ![CB] = CmdEsr]
               /\ pc' = [pc EXCEPT ![CB] = "cv_empty"]
               /\ UNCHANGED exc
          ELSE /\ hnd' = [hnd EXCEPT !.stb = stb, !.esr = 0]
               /\ pc' = [pc EXCEPT ![CB] = "h_event"]
               /\ UNCHANGED <<exc, op, arg>>
  /\ UNCHANGED <<visa_lock, in_callback, error_queue, event_queue, command_cnt, cmd_debug,
                 max_len, exception_on_error, handler_installed, site, tmp,
                 ncalls, nsrq, puts, dispatched,
                 last_number, fmt_call, field_call, req, cmd_cnt, access, resize>>

\* line 223 on the callback thread: the query of *ESR? (line 175) or of
\* SYSTem:ERRor:ALL? (line 186) fails, or returns the register value or the drained text
IoEndHandler(outs) ==
  /\ pc[CB] = "io"
  /\ \/ /\ ExitRaise(CB, Outcome("IOError"))
        /\ UNCHANGED hnd
     \/ /\ op[CB] = "esr"
        /\ \E v \in EsrValues : hnd' = [hnd EXCEPT !.esr = v]
        /\ pc' = [pc EXCEPT ![CB] = "h_event"]
        /\ UNCHANGED <<exc>>
     \/ /\ op[CB] = "errq"
        /\ \E out \in outs :
             hnd' = [hnd EXCEPT !.recs = out.recs, !.text = out.text, !.drained = TRUE,
                                !.todo = FindIter(out.text, 1), !.cnt = 0]
        /\ pc' = [pc EXCEPT ![CB] = "h_loop"]
        /\ UNCHANGED <<exc>>
  /\ UNCHANGED <<visa_lock, in_callback, error_queue, event_queue, command_cnt, cmd_debug,
                 max_len, exception_on_error, handler_installed, op, arg, site, tmp,
                 ncalls, nsrq, puts, dispatched,
                 last_number, fmt_call, field_call, req, cmd_cnt, access, resize>>

\* lines 179-182: publish the VISAEvent, then drain the errors if bit 2 of stb is set
HandlerEvent ==
  /\ pc[CB] = "h_event"
  /\ event_queue' = Append(event_queue, [stb |-> hnd.stb, esr |-> hnd.esr])
  /\ IF BitSet(hnd.stb, 4)
     THEN /\ op' = [op EXCEPT ![CB] = "errq"]
          /\ arg' = [arg EXCEPT ![CB] = CmdErrAll]
          /\ pc' = [pc EXCEPT ![CB] = "cv_empty"]
     ELSE /\ pc' = [pc EXCEPT ![CB] = "h_unguard"]
          /\ UNCHANGED <<op, arg>>
  /\ UNCHANGED <<visa_lock, in_callback, error_queue, command_cnt, cmd_debug, max_len,
                 exception_on_error, handler_installed, site, tmp, exc, hnd,
                 ncalls, nsrq, puts, dispatched,
                 last_number, fmt_call, field_call, req, cmd_cnt, access, resize>>

\* an error that keeps the line break of the message
ErrorOfMatch_KeepsNL(m, d) ==
  [code |-> ParseInt(m.g1),
   msg |-> m.g2,
   stack |-> IF m.has3 THEN DictGet(d, m.g3) ELSE NoStack]

\* an error that takes the stack of the last dispatched command when the message
\* embeds no command
ErrorOfMatch_LastCommand(m, d) ==
  [code |-> ParseInt(m.g1),
   msg |-> ReplaceNL(m.g2),
   stack |-> IF m.has3 THEN DictGet(d, m.g3)
             ELSE IF d # <<>> THEN d[Len(d)].value ELSE NoStack]

\* an error that never carries a stack
ErrorOfMatch_NoLookup(m, d) ==
  [code |-> ParseInt(m.g1),
   msg |-> ReplaceNL(m.g2),
   stack |-> NoStack]

\* lines 190-195: the InstrumentError built from one match of the pattern
ErrorOfMatch(m, d) ==
  [code |-> ParseInt(m.g1),
   msg |-> ReplaceNL(m.g2),
   stack |-> IF m.has3 THEN DictGet(d, m.g3) ELSE NoStack]

\* a fallback error with code 0
FallbackError_CodeZero(text) == [code |-> 0, msg |-> text, stack |-> NoStack]

\* line 198: the error pushed when no match was found
FallbackError(text) == [code |-> 0 - 1, msg |-> text, stack |-> NoStack]

\* lines 188-196: one iteration of the loop over the matches
HandlerPush ==
  /\ pc[CB] = "h_loop"
  /\ hnd.todo # <<>>
  /\ LET e == ErrorOfMatch(Head(hnd.todo), cmd_debug)
     IN /\ error_queue' = Append(error_queue, e)
        /\ hnd' = [hnd EXCEPT !.todo = Tail(hnd.todo), !.cnt = hnd.cnt + 1,
                              !.pushed = Append(hnd.pushed, e)]
  /\ UNCHANGED <<visa_lock, in_callback, event_queue, command_cnt, cmd_debug, max_len,
                 exception_on_error, handler_installed, pc, op, arg, site, tmp, exc, ncalls, nsrq, puts, dispatched,
                 last_number, fmt_call, field_call, req, cmd_cnt, access, resize>>

\* lines 197-198: after the loop, push the fallback error if nothing matched
HandlerLoopEnd ==
  /\ pc[CB] = "h_loop"
  /\ hnd.todo = <<>>
  /\ IF hnd.cnt = 0
     THEN LET e == FallbackError(hnd.text)
          IN /\ error_queue' = Append(error_queue, e)
                  /\ hnd' = [hnd EXCEPT !.pushed = Append(hnd.pushed, e)]
     ELSE UNCHANGED <<error_queue, hnd>>
  /\ pc' = [pc EXCEPT ![CB] = "h_unguard"]
  /\ UNCHANGED <<visa_lock, in_callback, event_queue, command_cnt, cmd_debug, max_len,
                 exception_on_error, handler_installed, op, arg, site, tmp, exc,
                 ncalls, nsrq, puts, dispatched,
                 last_number, fmt_call, field_call, req, cmd_cnt, access, resize>>

\* line 172: leaving "with self._in_callback:"
HandlerUnguard ==
  /\ pc[CB] = "h_unguard"
  /\ in_callback' = Free
  /\ pc' = [pc EXCEPT ![CB] = "h_unlock"]
  /\ UNCHANGED <<visa_lock, error_queue, event_queue, command_cnt, cmd_debug, max_len,
                 exception_on_error, handler_installed, op, arg, site, tmp, exc,
                 hnd, ncalls, nsrq, puts, dispatched,
                 last_number, fmt_call, field_call, req, cmd_cnt, access, resize>>

\* HandlerUnlock without the release of the IO lock at the end of the with block
HandlerUnlock_KeepsLock ==
  /\ pc[CB] = "h_unlock"
  /\ pc' = [pc EXCEPT ![CB] = "idle"]
  /\ op' = [op EXCEPT ![CB] = "none"]
  /\ arg' = [arg EXCEPT ![CB] = <<>>]
  /\ exc' = [exc EXCEPT ![CB] = NoOutcome]
  /\ hnd' = HndInit
  /\ UNCHANGED <<visa_lock, in_callback, error_queue, event_queue, command_cnt, cmd_debug, max_len,
                 exception_on_error, handler_installed, site, tmp, ncalls, nsrq, puts, dispatched,
                 last_number, fmt_call, field_call, req, cmd_cnt, access, resize>>

\* lines 171 and 183: leaving "with self._visa_lock:", the handler returns
HandlerUnlock ==
  /\ pc[CB] = "h_unlock"
  /\ visa_lock' = Free
  /\ pc' = [pc EXCEPT ![CB] = "idle"]
  /\ op' = [op EXCEPT ![CB] = "none"]
  /\ arg' = [arg EXCEPT ![CB] = <<>>]
  /\ exc' = [exc EXCEPT ![CB] = NoOutcome]
  /\ hnd' = HndInit
  /\ UNCHANGED <<in_callback, error_queue, event_queue, command_cnt, cmd_debug, max_len,
                 exception_on_error, handler_installed, site, tmp, ncalls, nsrq, puts, dispatched,
                 last_number, fmt_call, field_call, req, cmd_cnt, access, resize>>

(***************************************************************************)
(* The capacity of the history is reassigned by the user of the class.     *)
(***************************************************************************)
\* the values assigned to max_len: None and the integers 0..MaxCap
CapValues == {<<>>} \cup {<<n>> : n \in 0..MaxCap}

\* max_len setter, lines 31-34: store the capacity, then _check_len
SetMaxLen(v) ==
  /\ max_len' = v
  /\ cmd_debug' = CheckLen(cmd_debug, v)
  /\ UNCHANGED <<visa_lock, in_callback, error_queue, event_queue, command_cnt,
                 exception_on_error, handler_installed, pc, op, arg, site, tmp, exc, hnd,
                 ncalls, nsrq, puts, dispatched,
                 last_number, fmt_call, field_call, req, cmd_cnt, access, resize>>

(***************************************************************************)
(* The specifications.                                                     *)
(*                                                                         *)
(* Spec: two caller threads and the callback thread; the instrument        *)
(* answers a drain with one of ConcOutputs.                                *)
(* SeqSpec: one caller thread and the callback thread; the instrument      *)
(* answers with any of DeviceOutputs and reports any of StbValues.         *)
(* LeanSpec: one caller thread and the callback thread; the calls are      *)
(* those of CallReqs, well-formed and malformed.                           *)
(* HistSpec: one caller thread and the callback thread; the capacity of    *)
(* the history is reassigned at any time.                                  *)
(* CorrSpec: one caller thread that calls from two places and the callback *)
(* thread; the device records embed command texts.                         *)
(* TraceSpec: one caller thread that makes property accesses on a Trace and *)
(* a Marker, and the callback thread.                                      *)
(* FairSpec: one caller thread and the callback thread, with fairness.     *)
(* LiveSpec: two caller threads and the callback thread, with fairness for *)
(* every thread and every lock.                                            *)
(* RepSpec: one caller thread and the callback thread, with more service   *)
(* requests than calls.                                                    *)
(* DictSpec: a LimitedCapacityDict of any capacity, assigned key by key.   *)
(* FmtSpec: one SCPICmdFormatter, called with any template and arguments.  *)
(* FieldSpec: one format_field call on any value and spec.                 *)
(***************************************************************************)
\* the drained response in Spec, HistSpec and FairSpec: -113,"Undefined header"
ConcOutputs ==
  { [recs |-> <<RecUndefined>>, text |-> Render(<<RecUndefined>>)] }

\* the status bytes of the concurrent specifications: error queue, with and without event status
ConcStbValues == {4, 36}

\* the status byte in HistSpec, CorrSpec and TraceSpec: error queue not empty
CorrStbValues == {4}

CallerStep(t, maxc, reqs, sites) ==
  \/ StartWrite(t, maxc, reqs, sites) \/ StartQuery(t, maxc, reqs, sites)
  \/ StartInit(t, maxc, sites)
  \/ AcquireIO(t)
  \/ IoEndCaller(t) \/ WriteUnlock(t) \/ QueryUnlock(t)
  \/ GraceGet(t) \/ GraceExpire(t) \/ InstallHandler(t) \/ Return(t)

CallVisaStep(t) ==
  \/ CheckEmpty(t) \/ Probe(t) \/ ReleaseProbe(t) \/ GetNoBlock(t)
  \/ CntRead(t) \/ CntWrite(t) \/ DebugAndCall(t)

HandlerStep(maxs, stbs, outs) ==
  \/ Srq(maxs) \/ HandlerLock \/ HandlerGuard \/ HandlerStb(stbs) \/ IoEndHandler(outs)
  \/ HandlerEvent \/ HandlerPush \/ HandlerLoopEnd \/ HandlerUnguard \/ HandlerUnlock

Next ==
  \/ \E t \in Callers : CallerStep(t, MaxCalls, CallReqs, Sites)
  \/ \E t \in Threads : CallVisaStep(t)
  \/ HandlerStep(MaxSrq, ConcStbValues, ConcOutputs)

Spec == Init /\ [][Next]_vars

SeqNext ==
  \/ CallerStep("c1", MaxSeqCalls, GoodReqs, Sites)
  \/ \E t \in {"c1", CB} : CallVisaStep(t)
  \/ HandlerStep(MaxSeqSrq, StbValues, DeviceOutputs)

SeqSpec == Init /\ [][SeqNext]_vars

\* a step of caller t other than the start of a new call
CallerProgress(t) ==
  \/ AcquireIO(t) \/ IoEndCaller(t) \/ WriteUnlock(t) \/ QueryUnlock(t)
  \/ GraceGet(t) \/ GraceExpire(t) \/ InstallHandler(t) \/ Return(t)
  \/ CallVisaStep(t)

LeanNext ==
  \/ CallerStep("c1", MaxHistCalls, CallReqs, Sites)
  \/ \E t \in {"c1", CB} : CallVisaStep(t)
  \/ HandlerStep(MaxHistSrq, ConcStbValues, ConcOutputs)

\* one caller thread and the callback thread, whose calls may be malformed
LeanSpec == Init /\ [][LeanNext]_vars

\* one caller thread and the callback thread, where the caller thread is scheduled as
\* long as it can take a step: the transport primitive returns or fails, and the wait of
\* at most one second on the error queue ends
FairSpec == Init /\ [][LeanNext]_vars /\ WF_vars(CallerProgress("c1"))

\* a step of the handler invocation under way, other than taking a lock
HandlerProgress ==
  \/ HandlerStb(ConcStbValues) \/ IoEndHandler(ConcOutputs)
  \/ HandlerEvent \/ HandlerPush \/ HandlerLoopEnd \/ HandlerUnguard \/ HandlerUnlock
  \/ CallVisaStep(CB)

\* the stack that init() stores at line 219 when called from site 1
InitStack ==
  [present |-> TRUE,
   frames |-> <<Frame("caller", 1), Frame("init", 1)>>]

\* the state after Instrument.__init__ and a completed init(): one command dispatched
\* and recorded, the handler installed
LiveInit ==
  /\ visa_lock = Free
  /\ in_callback = Free
  /\ error_queue = <<>>
  /\ event_queue = <<>>
  /\ command_cnt = 1
  /\ cmd_debug = SetItem(<<>>, <<DefaultMaxLen>>, CmdInit, InitStack)
  /\ max_len = <<DefaultMaxLen>>
  /\ exception_on_error \in BOOLEAN
  /\ handler_installed = TRUE
  /\ pc = [t \in Threads |-> "idle"]
  /\ op = [t \in Threads |-> "none"]
  /\ arg = [t \in Threads |-> <<>>]
  /\ site = [t \in Threads |-> 0]
  /\ tmp = [t \in Threads |-> 0]
  /\ exc = [t \in Threads |-> NoOutcome]
  /\ hnd = HndInit
  /\ ncalls = 0
  /\ nsrq = 0
  /\ puts = <<>>
  /\ dispatched = [n |-> 1, stale |-> FALSE,
                   last |-> {[key |-> CmdInit, value |-> InitStack]}]
  /\ last_number = 0
  /\ fmt_call = NoCall
  /\ field_call = NoField
  /\ req = [t \in Threads |-> NoReq]
  /\ cmd_cnt = [o \in Objs |-> <<>>]
  /\ access = [stage |-> "none", obj |-> "trace", seen |-> [o \in Objs |-> 0]]
  /\ resize = NoResize

\* the steps of a caller thread that makes write and query calls
WriteQueryStep(t, maxc) ==
  \/ StartWrite(t, maxc, GoodReqs, Sites) \/ StartQuery(t, maxc, GoodReqs, Sites)
  \/ AcquireIO(t)
  \/ IoEndCaller(t) \/ WriteUnlock(t) \/ QueryUnlock(t)
  \/ GraceGet(t) \/ GraceExpire(t) \/ Return(t)

LiveNext ==
  \/ \E t \in Callers : WriteQueryStep(t, MaxLiveCalls)
  \/ \E t \in Threads : CallVisaStep(t)
  \/ HandlerStep(MaxLiveSrq, ConcStbValues, ConcOutputs)

\* two caller threads and the callback thread after init(), under fair scheduling: a thread that can
\* take a step takes one (the transport primitives return or fail, the wait on the error
\* queue ends), and a thread that waits for a lock which is free again and again gets it
LiveSpec ==
  /\ LiveInit /\ [][LiveNext]_vars
  /\ \A t \in Callers : WF_vars(CallerProgress(t)) /\ SF_vars(AcquireIO(t))
  /\ WF_vars(HandlerProgress) /\ SF_vars(HandlerLock) /\ SF_vars(HandlerGuard)

RepNext ==
  \/ CallerStep("c1", MaxRepCalls, GoodReqs, Sites)
  \/ \E t \in {"c1", CB} : CallVisaStep(t)
  \/ HandlerStep(MaxRepSrq, ConcStbValues, ConcOutputs)

\* one caller thread and the callback thread, with repeated service requests
RepSpec == Init /\ [][RepNext]_vars

\* the capacities given to LimitedCapacityDict(max_len=...): None and 0..MaxDictCap
DictCaps == {<<>>} \cup {<<n>> : n \in 0..MaxDictCap}

\* the keys assigned: the texts "1", "2", ...
DictKeys == {IntToText(i) : i \in 1..MaxDictKeys}

\* the values assigned: stacks of one frame
DictValues == {[present |-> TRUE, frames |-> <<Frame("caller", c)>>] : c \in 1..2}

\* LimitedCapacityDict.__init__: an empty dictionary of the given capacity
DictInit == \E ml \in DictCaps : InitWith(ml) /\ exception_on_error

\* d[k] = v on the dictionary
DictPut(k, v) ==
  /\ Len(puts) < MaxPuts
  /\ cmd_debug' = SetItem(cmd_debug, max_len, k, v)
  /\ puts' = Append(puts, [key |-> k, value |-> v])
  /\ UNCHANGED <<visa_lock, in_callback, error_queue, event_queue, command_cnt, max_len,
                 exception_on_error, handler_installed, pc, op, arg, site, tmp, exc, hnd,
                 ncalls, nsrq, dispatched, last_number, fmt_call, field_call, req, cmd_cnt, access, resize>>

DictNext == \E k \in DictKeys, v \in DictValues : DictPut(k, v)

DictSpec == DictInit /\ [][DictNext]_vars

(***************************************************************************)
(* ResizeSpec: a LimitedCapacityDict used on its own whose capacity is     *)
(* reassigned between the assignments of its items.                        *)
(***************************************************************************)
\* the capacities given to the constructor and assigned to max_len: None, 0, 1, ...
ResizeCaps == {<<>>} \cup {<<n>> : n \in 0..MaxResizeCap}

\* the keys assigned: the texts "1", "2", ...
ResizeKeys == {IntToText(i) : i \in 1..MaxResizeKeys}

ResizeInit == \E ml \in ResizeCaps : InitWith(ml) /\ exception_on_error

\* d[k] = v on the dictionary (__setitem__, lines 41-45)
ResizePut(k, v) ==
  /\ cmd_debug' = SetItem(cmd_debug, max_len, k, v)
  /\ UNCHANGED <<visa_lock, in_callback, error_queue, event_queue, command_cnt, max_len,
                 exception_on_error, handler_installed, pc, op, arg, site, tmp, exc, hnd,
                 ncalls, nsrq, puts, dispatched,
                 last_number, fmt_call, field_call, req, cmd_cnt, access, resize>>

\* a setter that stores the capacity without calling _check_len: the entries beyond the
\* capacity stay until the next assignment of an item
Resize_Deferred(v) ==
  /\ max_len' = v
  /\ cmd_debug' = cmd_debug
  /\ resize' = [done |-> TRUE, from |-> max_len, size |-> Len(cmd_debug)]
  /\ UNCHANGED <<visa_lock, in_callback, error_queue, event_queue, command_cnt,
                 exception_on_error, handler_installed, pc, op, arg, site, tmp, exc, hnd,
                 ncalls, nsrq, puts, dispatched,
                 last_number, fmt_call, field_call, req, cmd_cnt, access>>

\* d.max_len = v on the dictionary (the setter, lines 31-34, with _check_len, 36-39)
Resize(v) ==
  /\ max_len' = v
  /\ cmd_debug' = CheckLen(cmd_debug, v)
  /\ resize' = [done |-> TRUE, from |-> max_len, size |-> Len(cmd_debug)]
  /\ UNCHANGED <<visa_lock, in_callback, error_queue, event_queue, command_cnt,
                 exception_on_error, handler_installed, pc, op, arg, site, tmp, exc, hnd,
                 ncalls, nsrq, puts, dispatched,
                 last_number, fmt_call, field_call, req, cmd_cnt, access>>

ResizeNext ==
  \/ \E k \in ResizeKeys, v \in DictValues : ResizePut(k, v)
  \/ \E v \in ResizeCaps : Resize(v)

ResizeSpec == ResizeInit /\ [][ResizeNext]_vars

HistNext ==
  \/ CallerStep("c1", MaxHistCalls, GoodReqs, Sites)
  \/ \E t \in {"c1", CB} : CallVisaStep(t)
  \/ HandlerStep(MaxHistSrq, CorrStbValues, ConcOutputs)
  \/ \E v \in CapValues : SetMaxLen(v)

HistSpec == Init /\ [][HistNext]_vars

\* call sites in CorrSpec: the same command text is dispatched from two places
CorrSites == {1, 2}

\* "Data out of range;ABC? 1": a message that ends with the text of the query "ABC? 1"
MsgEmbedsQuery == <<"D", "a", "t", "a", " ", "o", "u", "t", " ", "o", "f", " ", "r", "a", "n", "g", "e", ";", "A", "B", "C", "?", " ", "1">>

\* "ABC 1;Data out of range": a message that begins with the text of the command "ABC 1"
MsgCmdFirst == <<"A", "B", "C", " ", "1", ";", "D", "a", "t", "a", " ", "o", "u", "t", " ", "o", "f", " ", "r", "a", "n", "g", "e">>

RecEmbedsQuery == [code |-> 0 - 222, msg |-> MsgEmbedsQuery]

RecCmdFirst == [code |-> 0 - 222, msg |-> MsgCmdFirst]

\* the drained responses in CorrSpec: one record each
CorrOutputs ==
  { [recs |-> <<r>>, text |-> Render(<<r>>)] :
      r \in {RecUndefined, RecEmbedsCmd, RecEmbedsQuery, RecCmdFirst} }

\* the capacities of the history in CorrSpec: the default, and room for two commands
CorrCaps == {<<DefaultMaxLen>>, <<2>>}

CorrInit == \E ml \in CorrCaps : InitWith(ml)

CorrNext ==
  \/ CallerStep("c1", MaxCorrCalls, GoodReqs, CorrSites)
  \/ \E t \in {"c1", CB} : CallVisaStep(t)
  \/ HandlerStep(MaxCorrSrq, CorrStbValues, CorrOutputs)

\* one caller thread that calls from two places and the callback thread; the instrument
\* reports records that embed command texts, and the history has room for all commands
\* or for two
CorrSpec == CorrInit /\ [][CorrNext]_vars

(***************************************************************************)
(* Property accesses on a Trace and a Marker (ZNB.py): the callback that   *)
(* selects the trace, then the command of the property.                    *)
(***************************************************************************)
\* Trace._make_active_cb line 343: self._cmd_cnt != command_cnt;
\* Marker._prop_callback line 454: not self._cmd_cnt or self._cmd_cnt != command_cnt
NeedsSelect(o) ==
  IF o = "marker"
  THEN cmd_cnt[o] = <<>> \/ cmd_cnt[o] = <<0>> \/ cmd_cnt[o] # <<command_cnt>>
  ELSE cmd_cnt[o] # <<command_cnt>>

\* lines 343-344 and 454-455: the callback of a property access on object o compares
\* the counters and goes on to select_trace() or past it
MakeActiveCb(t, o) ==
  /\ pc[t] = "idle" /\ access.stage = "none"
  /\ access' = [access EXCEPT !.obj = o,
                              !.stage = IF NeedsSelect(o) THEN "select" ELSE "set"]
  /\ UNCHANGED <<visa_lock, in_callback, error_queue, event_queue, command_cnt, cmd_debug,
                 max_len, exception_on_error, handler_installed, pc, op, arg, site, tmp,
                 exc, hnd, ncalls, nsrq, puts, dispatched,
                 last_number, fmt_call, field_call, req, cmd_cnt, resize>>

\* lines 345 and 456: self._cmd_cnt = command_cnt + 1
SetCmdCnt(t) ==
  /\ pc[t] = "idle" /\ access.stage = "set"
  /\ cmd_cnt' = [cmd_cnt EXCEPT ![access.obj] = <<command_cnt + 1>>]
  /\ access' = [access EXCEPT !.stage = "ready"]
  /\ UNCHANGED <<visa_lock, in_callback, error_queue, event_queue, command_cnt, cmd_debug,
                 max_len, exception_on_error, handler_installed, pc, op, arg, site, tmp,
                 exc, hnd, ncalls, nsrq, puts, dispatched,
                 last_number, fmt_call, field_call, req, resize>>

\* a command that is not a property access, such as select_trace() called on another
\* trace (lines 411-415)
OtherCommand(t, maxc) ==
  /\ pc[t] = "idle" /\ access.stage = "none" /\ ncalls < maxc
  /\ access' = [access EXCEPT !.stage = "other"]
  /\ UNCHANGED <<visa_lock, in_callback, error_queue, event_queue, command_cnt, cmd_debug,
                 max_len, exception_on_error, handler_installed, pc, op, arg, site, tmp,
                 exc, hnd, ncalls, nsrq, puts, dispatched,
                 last_number, fmt_call, field_call, req, cmd_cnt, resize>>

\* the write of select_trace(), of the property or of the other command, and the query
\* of the property
AccessCall(t, maxc) ==
  \/ access.stage \in {"select", "ready", "other"} /\ StartWrite(t, maxc, GoodReqs, Sites)
  \/ access.stage = "ready" /\ StartQuery(t, maxc, GoodReqs, Sites)

\* the call returns or raises: an exception raised by select_trace() leaves the callback
\* before line 345 (456) and ends the access; the command of the property ends it
AccessReturn(t) ==
  /\ pc[t] = "done"
  /\ pc' = [pc EXCEPT ![t] = "idle"]
  /\ op' = [op EXCEPT ![t] = "none"]
  /\ arg' = [arg EXCEPT ![t] = <<>>]
  /\ site' = [site EXCEPT ![t] = 0]
  /\ exc' = [exc EXCEPT ![t] = NoOutcome]
  /\ req' = [req EXCEPT ![t] = NoReq]
  /\ access' =
       CASE access.stage = "select" ->
              [access EXCEPT !.stage = IF exc[t].kind = "ok" THEN "set" ELSE "none"]
         [] access.stage = "ready" ->
              [access EXCEPT !.stage = "none", !.seen[access.obj] = dispatched.n]
         [] OTHER -> [access EXCEPT !.stage = "none"]
  /\ UNCHANGED <<visa_lock, in_callback, error_queue, event_queue, command_cnt, cmd_debug,
                 max_len, exception_on_error, handler_installed, tmp, hnd, ncalls, nsrq, puts, dispatched,
                 last_number, fmt_call, field_call, cmd_cnt, resize>>

\* init() called between property accesses
AccessInit(t, maxc) == access.stage = "none" /\ StartInit(t, maxc, Sites)

TraceNext ==
  \/ \E o \in Objs : MakeActiveCb("c1", o)
  \/ SetCmdCnt("c1") \/ OtherCommand("c1", MaxTraceCalls)
  \/ AccessCall("c1", MaxTraceCalls) \/ AccessReturn("c1")
  \/ AccessInit("c1", MaxTraceCalls)
  \/ AcquireIO("c1") \/ IoEndCaller("c1") \/ WriteUnlock("c1") \/ QueryUnlock("c1")
  \/ GraceGet("c1") \/ GraceExpire("c1") \/ InstallHandler("c1")
  \/ \E t \in {"c1", CB} : CallVisaStep(t)
  \/ HandlerStep(MaxTraceSrq, CorrStbValues, ConcOutputs)

\* one caller thread that makes property accesses on a Trace and a Marker, other
\* commands and init(), and the callback thread
TraceSpec == Init /\ [][TraceNext]_vars

(***************************************************************************)
(* Properties.                                                             *)
(***************************************************************************)
\* thread t is inside a Transport primitive (write, query or read_stb)
InTransport(t) == pc[t] \in {"io", "h_stb"}

\* error_queue changes only by an append at its tail
OnlyAppends ==
  \/ error_queue' = error_queue
  \/ /\ Len(error_queue') = Len(error_queue) + 1
     /\ SubSeq(error_queue', 1, Len(error_queue)) = error_queue

\* the handler invocation has run its body to the end without an exception
HandlerBodyDone == pc[CB] = "h_unguard" /\ exc[CB].kind = "none"

\* the (code, message) pairs of a sequence of errors
CodeMsg(errs) == [i \in 1..Len(errs) |-> [code |-> errs[i].code, msg |-> errs[i].msg]]

\* C1: no two Transport primitive calls (write, query, read_stb) are in progress at the
\* same time, whatever the interleaving of write, query, init and the handler.
C1_NoOverlap == Cardinality({t \in Threads : InTransport(t)}) <= 1

\* C2: with error raising enabled, a write or query that finds the error queue non-empty
\* fails with the oldest queued InstrumentError, which is removed from the queue.
C2_NextCallRaisesOldest ==
  [][\A t \in Callers :
       (/\ op[t] \in {"write", "query"}
        /\ pc[t] \in {"cv_probe", "cv_release", "cv_get"}
        /\ pc'[t] \notin {"cv_probe", "cv_release", "cv_get"})
       => /\ error_queue # <<>>
          /\ exc'[t] = Raised(Head(error_queue))
          /\ error_queue' = Tail(error_queue)]_vars

\* C3 (as claimed): the number of entries of the history is at most its capacity.
C3_SizeAtMostCapacity == max_len # <<>> => Len(cmd_debug) <= max_len[1]

\* C3 (amended): whenever the capacity is a positive integer, the number of entries of
\* the history is at most the capacity.
C3_SizeAtMostPositiveCapacity == Truthy(max_len) => Len(cmd_debug) <= max_len[1]

\* a capacity of 1 is in force and the entry of init() has been evicted
C3_Witness ==
  /\ max_len = <<1>>
  /\ Len(cmd_debug) = 1
  /\ cmd_debug[1].key # CmdInit
  /\ handler_installed

\* C4: an error leaves the error queue only from its head and only by being raised to a
\* caller thread, which carries it unchanged to the end of its call; the other entries
\* stay in the queue.
C4_NoSilentDrop ==
  [][/\ \/ OnlyAppends
        \/ /\ error_queue # <<>>
           /\ error_queue' = Tail(error_queue)
           /\ \E t \in Callers :
                /\ pc[t] \in {"cv_get", "q_grace"}
                /\ pc'[t] \in {"w_unlock", "q_unlock", "done"}
                /\ exc'[t] = Raised(Head(error_queue))
     /\ \A t \in Callers :
          (exc[t].kind = "InstrumentError" /\ pc[t] # "done") => exc'[t] = exc[t]]_vars

\* a query has ended by raising an error it took from the queue
C4_Witness ==
  \E t \in Callers :
    pc[t] = "done" /\ op[t] = "query" /\ exc[t].kind = "InstrumentError"

\* C5: the command counter never decreases and changes only in a step of the thread
\* that holds the IO lock.
C5_CounterMonotonicUnderLock ==
  [][/\ command_cnt' >= command_cnt
     /\ command_cnt' # command_cnt =>
          (visa_lock # Free /\ pc'[visa_lock] # pc[visa_lock])]_vars

\* C6: a handler invocation that sees bit 2 of the status byte and drains a response in
\* which the pattern matches nothing pushes exactly one error: code -1, the raw response
\* as message, no stack.
C6_FallbackError ==
  (HandlerBodyDone /\ BitSet(hnd.stb, 4) /\ hnd.drained /\ FindIter(hnd.text, 1) = <<>>)
  => hnd.pushed = << [code |-> 0 - 1, msg |-> hnd.text, stack |-> NoStack] >>

\* the handler has drained an unparsable response and pushed the fallback error
C6_Witness ==
  /\ HandlerBodyDone /\ BitSet(hnd.stb, 4) /\ hnd.drained
  /\ hnd.text = RawGarbage
  /\ Len(hnd.pushed) = 1 /\ hnd.pushed[1].code = 0 - 1
  /\ error_queue # <<>> /\ error_queue[Len(error_queue)] = hnd.pushed[1]

PlainMessage(msg) == CountIn(msg, {DQ}) = 0 /\ CountIn(msg, {NL}) <= 1

IsUndefinedHeader(e) == e.code = 0 - 113 /\ e.msg = MsgUndefinedHeader

\* C8 (as claimed): the error queued for -113,"Undefined header" carries a stack.
C8_UndefinedHeaderHasStack ==
  \A i \in 1..Len(error_queue) :
    IsUndefinedHeader(error_queue[i]) => error_queue[i].stack.present

\* C8 (amended): the error queued for -113,"Undefined header" carries no stack, the
\* message embedding no command text to look up in the history.
C8_UndefinedHeaderHasNoStack ==
  \A i \in 1..Len(error_queue) :
    IsUndefinedHeader(error_queue[i]) => error_queue[i].stack = NoStack

\* after two dispatched commands, the error of -113,"Undefined header" is on the queue
C8_Witness ==
  /\ error_queue # <<>> /\ IsUndefinedHeader(error_queue[1])
  /\ DictHas(cmd_debug, CmdInit)
  /\ \E mn \in Mnemonics, a \in ArgStrs : DictHas(cmd_debug, mn \o <<" ">> \o a)
  /\ hnd.recs = <<RecUndefined>>

\* C9: with error raising disabled, no step removes an entry from the error queue or
\* reorders it, and no call ends with an InstrumentError or an empty-queue exception.
C9_DisabledRaisingKeepsQueue ==
  [][~exception_on_error =>
       /\ OnlyAppends
       /\ \A t \in Callers : exc'[t].kind \notin {"InstrumentError", "QueueEmpty"}]_vars

\* raising is disabled, two errors are queued in the order pushed, and a write has
\* returned normally
C9_Witness ==
  /\ ~exception_on_error
  /\ Len(error_queue) = 2
  /\ error_queue[1].code = 0 - 222 /\ error_queue[2].code = 0 - 113
  /\ pc["c1"] = "done" /\ op["c1"] = "write" /\ exc["c1"].kind = "ok"

\* the query call of thread t has timed out in the transport, with error raising enabled
TimedOutQuery(t) == pc[t] = "q_unlock" /\ exc[t].kind = "Timeout" /\ exception_on_error

\* C10: a query whose transport call timed out, with error raising enabled, waits on the
\* error queue; it ends with the oldest queued InstrumentError if the queue holds one
\* when the wait is served, and with the original timeout error if the queue is empty
\* when the wait ends; the call terminates.
C10_TimeoutGracePeriod ==
  /\ [][\A t \in Callers :
          /\ TimedOutQuery(t) => pc'[t] \in {"q_unlock", "q_grace"}
          /\ (pc[t] = "q_grace" /\ pc'[t] # "q_grace") =>
               /\ pc'[t] = "done"
               /\ IF error_queue # <<>>
                  THEN exc'[t] = Raised(Head(error_queue)) /\ error_queue' = Tail(error_queue)
                  ELSE exc'[t] = Outcome("Timeout") /\ error_queue' = error_queue]_vars
  /\ \A t \in Callers : TimedOutQuery(t) ~> pc[t] = "done"

\* a query that timed out has ended with an error the handler pushed during its wait
C10_Witness ==
  /\ pc["c1"] = "done" /\ op["c1"] = "query"
  /\ exc["c1"].kind = "InstrumentError"
  /\ pc[CB] \in {"h_loop", "h_unguard"} /\ Len(hnd.pushed) >= 1
  /\ exc["c1"].err = hnd.pushed[1]

\* thread t is outside every call: before a call, or after its call or handler
\* invocation has returned or raised
Finished(t) == pc[t] \in {"idle", "done"}

\* C11: a thread whose write, query or handler invocation has finished, normally or with
\* an InstrumentError, a transport error or a timeout, holds neither the IO lock nor the
\* callback-guard lock; when no call is running both locks are free.
C11_LocksReleasedAtExit ==
  /\ \A t \in Threads : Finished(t) => visa_lock # t /\ in_callback # t
  /\ (\A t \in Threads : Finished(t)) => visa_lock = Free /\ in_callback = Free

\* a query has ended with a transport error after a handler invocation that failed in
\* read_stb or in one of its commands has ended
C11_Witness ==
  /\ pc["c1"] = "done" /\ op["c1"] = "query" /\ exc["c1"].kind = "IOError"
  /\ pc[CB] = "idle" /\ nsrq >= 1 /\ event_queue = <<>>
  /\ visa_lock = Free /\ in_callback = Free

\* the step is one of the callback thread
HandlerStepTaken == pc'[CB] # pc[CB] \/ hnd' # hnd

\* C12: the service-request handler never removes or raises an entry of the error queue,
\* also when the queue is non-empty and error raising is enabled while it issues *ESR? and
\* SYSTem:ERRor:ALL?: its steps leave the queue unchanged or append to it, and it never
\* reaches the release of the probe or the get of check_error_queue.
C12_HandlerOnlyAppends ==
  [][HandlerStepTaken =>
       /\ OnlyAppends
       /\ pc'[CB] \notin {"cv_release", "cv_get"}
       /\ exc'[CB].kind \notin {"InstrumentError", "QueueEmpty"}]_vars

\* with error raising enabled and an error queued by an earlier invocation, the handler
\* has gone past check_error_queue and is about to send its error-drain command
C12_Witness ==
  /\ exception_on_error /\ error_queue # <<>>
  /\ pc[CB] = "cv_read" /\ op[CB] = "errq"
  /\ in_callback = CB /\ visa_lock = CB
  /\ nsrq = 2

\* the write or query of thread t has left the transport primitive and not yet ended
AfterTransport(t) == pc[t] \in {"w_unlock", "q_unlock", "q_grace"}

\* C13: a transport failure other than a timeout, raised by the transport primitive in a
\* write or query, is what that call ends with: the failing step and the rest of the call
\* leave the error queue unchanged, the call goes straight to its end without waiting on
\* the queue, and no call enters the transport primitive a second time.
C13_TransportErrorReraised ==
  [][\A t \in Callers :
       /\ (op[t] \in {"write", "query"} /\ pc[t] = "io" /\ exc'[t].kind = "IOError")
            => /\ pc'[t] \in {"w_unlock", "q_unlock"}
               /\ error_queue' = error_queue
       /\ (AfterTransport(t) /\ exc[t].kind = "IOError" /\ pc'[t] # pc[t])
            => /\ pc'[t] = "done"
               /\ exc'[t] = exc[t]
               /\ error_queue' = error_queue
       /\ AfterTransport(t) => pc'[t] \in {pc[t], "q_grace", "done"}]_vars

\* with error raising enabled, a query has ended with the transport error of its only
\* transport call, and an error pushed by the handler meanwhile is still queued
C13_Witness ==
  /\ exception_on_error
  /\ pc["c1"] = "done" /\ op["c1"] = "query" /\ exc["c1"].kind = "IOError"
  /\ error_queue # <<>>
  /\ command_cnt = 3

\* the keys assigned so far are all different
DistinctPuts == Cardinality({puts[i].key : i \in 1..Len(puts)}) = Len(puts)

\* the keys of a dictionary, oldest first
Keys(d) == [i \in 1..Len(d) |-> d[i].key]

\* C14: for a dictionary of capacity C >= 1, after N <= C distinct keys were inserted its
\* size is N; after C + K distinct keys its size is C, the K keys inserted first are
\* absent and the C keys inserted last are present, in insertion order.
C14_FifoEviction ==
  (Truthy(max_len) /\ DistinctPuts) =>
    LET N == Len(puts)
        C == max_len[1]
        K == IF N > C THEN N - C ELSE 0
    IN /\ Len(cmd_debug) = (IF N <= C THEN N ELSE C)
       /\ \A i \in 1..K : ~DictHas(cmd_debug, puts[i].key)
       /\ \A i \in (K + 1)..N : DictHas(cmd_debug, puts[i].key)
       /\ Keys(cmd_debug) = [i \in 1..(N - K) |-> puts[K + i].key]

\* four distinct keys were inserted into a dictionary of capacity 2
C14_Witness ==
  /\ max_len = <<2>> /\ Len(puts) = 4 /\ DistinctPuts
  /\ Len(cmd_debug) = 2
  /\ ~DictHas(cmd_debug, puts[1].key) /\ ~DictHas(cmd_debug, puts[2].key)

\* C15: assigning a key that is already in the dictionary leaves the size unchanged,
\* stores the new value, keeps every other entry in its order and puts the key last;
\* every assignment removes entries only from the oldest end, so the re-inserted key is
\* the last of the current entries to be evicted.
C15_ReinsertMovesToEnd ==
  [][puts' # puts =>
       LET e == puts'[Len(puts')]
           rest == DictDel(cmd_debug, e.key)
           kept == SubSeq(cmd_debug', 1, Len(cmd_debug') - 1)
       IN /\ cmd_debug' # <<>>
          /\ cmd_debug'[Len(cmd_debug')] = e
          /\ kept = Drop(rest, Len(rest) - Len(kept) + 1)
          /\ DictHas(cmd_debug, e.key) =>
               /\ Len(cmd_debug') = Len(cmd_debug)
               /\ kept = rest]_vars

\* in a dictionary of capacity 2, the oldest key was assigned again with another value
\* and a further key was then inserted: the re-inserted key has survived the eviction
C15_Witness ==
  /\ max_len = <<2>> /\ Len(puts) = 4
  /\ puts[3].key = puts[1].key /\ puts[3].value # puts[1].value
  /\ puts[2].key # puts[1].key
  /\ puts[4].key \notin {puts[1].key, puts[2].key}
  /\ cmd_debug = <<puts[3], puts[4]>>

\* C16 (as claimed): the counter changes only by one, in a step of a write or query call,
\* and no write or query call ends without having incremented it, so that the counter
\* equals the number of write/query calls made.
C16_CounterCountsCalls ==
  [][/\ command_cnt' # command_cnt =>
          /\ command_cnt' = command_cnt + 1
          /\ \E t \in Callers : op[t] \in {"write", "query"} /\ pc[t] = "cv_write"
                                /\ pc'[t] = "cv_debug"
     /\ \A t \in Callers :
          (op[t] \in {"write", "query"} /\ pc[t] = "cv_get") => pc'[t] = "cv_get"]_vars

\* C16 (amended): the counter counts the commands dispatched to the transport, by write,
\* query, init and the handler alike: it never exceeds their number and equals it as long
\* as no increment stored over a value that was no longer current; a call that ends in
\* the error-raising step dispatches nothing and leaves the counter unchanged.
C16_CounterCountsDispatches ==
  /\ [](/\ command_cnt <= dispatched.n
        /\ ~dispatched.stale => command_cnt = dispatched.n)
  /\ [][\A t \in Callers :
          (pc[t] = "cv_get" /\ pc'[t] # pc[t])
            => /\ pc'[t] \in {"w_unlock", "q_unlock", "done"}
               /\ command_cnt' = command_cnt
               /\ dispatched' = dispatched]_vars

\* after init(), one handler invocation that sent *ESR? and SYSTem:ERRor:ALL?, and one
\* write that returned normally, the counter is 4 while one write call was made
C16_Witness ==
  /\ command_cnt = 4 /\ dispatched.n = 4 /\ ~dispatched.stale
  /\ ncalls = 2 /\ nsrq = 1 /\ handler_installed
  /\ pc["c1"] = "done" /\ op["c1"] = "write" /\ exc["c1"].kind = "ok"
  /\ pc[CB] = "idle"

\* C17: the error-raising step never waits for the callback guard: the probe can always
\* be taken; when the guard is held the raise is skipped, the error queue and the guard
\* stay as they are and the thread goes on to send its command; when the probe succeeds
\* the guard is released again before the error is taken from the queue, so no caller
\* holds the guard when it raises or when its call has ended.
C17_ProbeNeverBlocks ==
  /\ [](\A t \in Threads : pc[t] = "cv_probe" => ENABLED Probe(t))
  /\ [](\A t \in Callers : pc[t] \notin {"cv_probe", "cv_release"} => in_callback # t)
  /\ [][\A t \in Threads :
          /\ (pc[t] = "cv_probe" /\ pc'[t] # pc[t]) =>
               IF in_callback = Free
               THEN pc'[t] = "cv_release" /\ in_callback' = t /\ error_queue' = error_queue
               ELSE /\ pc'[t] = "cv_read"
                    /\ in_callback' = in_callback /\ error_queue' = error_queue
          /\ (pc[t] = "cv_release" /\ pc'[t] # pc[t]) =>
               /\ pc'[t] = "cv_get"
               /\ in_callback' = Free /\ error_queue' = error_queue
          /\ (pc[t] = "cv_read" /\ pc'[t] # pc[t]) => pc'[t] = "cv_write"
          /\ (pc[t] = "cv_write" /\ pc'[t] # pc[t]) => pc'[t] = "cv_debug"
          /\ (pc[t] = "cv_debug" /\ pc'[t] # pc[t]) => pc'[t] = "io"]_vars

\* with error raising enabled and an error queued, init() has found the guard held by the
\* running handler, skipped the raise and is about to send its command
C17_Witness ==
  /\ exception_on_error /\ error_queue # <<>>
  /\ op["c1"] = "init" /\ pc["c1"] = "cv_read"
  /\ in_callback = CB /\ pc[CB] \in {"h_loop", "h_unguard"}

\* C18: a handler invocation whose reads succeed publishes exactly one VISAEvent, and
\* the publication never waits: the event is appended in the one step the handler takes
\* after the reads, before the errors are drained and whether or not bit 2 of the status
\* byte is set; no other step changes the event queue. The register read *ESR? is issued
\* exactly when the status byte has the bit of value 32 set, and the event carries the
\* value it returned; otherwise no command is sent and the event carries 0.
C18_OneEventPerInvocation ==
  /\ [](/\ pc[CB] = "h_event" => ENABLED HandlerEvent
        /\ op[CB] = "esr" => BitSet(hnd.stb, 32)
        /\ Len(event_queue) <= nsrq
        /\ \/ pc[CB] \in {"h_lock", "h_guard", "h_stb", "h_event"}
           \/ op[CB] = "esr" /\ pc[CB] \in {"cv_empty", "cv_probe", "cv_read", "cv_write",
                                              "cv_debug", "io"}
             => Len(event_queue) < nsrq)
  /\ [][/\ event_queue' # event_queue => pc[CB] = "h_event"
        /\ (pc[CB] = "h_stb" /\ pc'[CB] # "h_stb" /\ exc'[CB].kind = "none") =>
             IF BitSet(hnd'.stb, 32)
             THEN pc'[CB] = "cv_empty" /\ op'[CB] = "esr" /\ arg'[CB] = CmdEsr
             ELSE pc'[CB] = "h_event" /\ hnd'.esr = 0 /\ dispatched' = dispatched
        /\ (op[CB] = "esr" /\ pc'[CB] # pc[CB]
              /\ pc[CB] \in {"cv_empty", "cv_probe", "cv_read", "cv_write", "cv_debug"}) =>
             pc'[CB] \in {"cv_probe", "cv_read", "cv_write", "cv_debug", "io"}
        /\ (op[CB] = "esr" /\ pc[CB] = "io" /\ pc'[CB] # "io" /\ exc'[CB].kind = "none") =>
             pc'[CB] = "h_event" /\ hnd'.esr \in EsrValues /\ hnd'.stb = hnd.stb
        /\ pc'[CB] = "h_event" => pc[CB] \in {"h_stb", "io", "h_event"}
        /\ (pc[CB] = "h_event" /\ pc'[CB] # "h_event") =>
             /\ event_queue' = Append(event_queue, [stb |-> hnd.stb, esr |-> hnd.esr])
             /\ hnd.esr = (IF BitSet(hnd.stb, 32) THEN hnd.esr ELSE 0)
             /\ BitSet(hnd.stb, 32) => hnd.esr \in EsrValues
             /\ IF BitSet(hnd.stb, 4)
                THEN pc'[CB] = "cv_empty" /\ op'[CB] = "errq"
                ELSE pc'[CB] = "h_unguard"]_vars

\* the status byte had the bits of value 32 and 4 set: the register was read, the event
\* with both values is on the queue and the handler has gone on to drain the errors
C18_Witness ==
  /\ event_queue = <<[stb |-> 100, esr |-> 16]>>
  /\ pc[CB] = "h_loop" /\ hnd.drained
  /\ dispatched.n >= 2

\* the sequences over S of length at most n
SeqsUpTo(S, n) == UNION {[1..k -> S] : k \in 0..n}

\* the templates: up to MaxFields fields separated by ", ", each named by nothing or by
\* an index, with the spec "" or "d"
FmtSpecs == {<<>>, <<"d">>}

FieldShapes ==
  {Field(<<>>, TRUE, 0, sp) : sp \in FmtSpecs}
    \cup {Field(<<>>, FALSE, i, sp) : i \in 0..(MaxFields - 1), sp \in FmtSpecs}

Templates ==
  {[k \in 1..Len(t) |-> [t[k] EXCEPT !.lit = IF k = 1 THEN <<>> ELSE Sep]] :
     t \in SeqsUpTo(FieldShapes, MaxFields)}

\* the positional arguments: up to MaxFields integers and strings
FmtAtoms == {IntVal(1), IntVal(2), StrVal(<<"a", "b">>)}

ArgTuples == SeqsUpTo(FmtAtoms, MaxFields)

\* SCPICmdFormatter.vformat, lines 60-63, on one formatter: last_number is reset after
\* the call of the base class has returned, and not when it raises
VFormat(fields, args) ==
  /\ fmt_call.n < MaxFmtCalls
  /\ LET r == FormatFields(fields, args, last_number, <<>>)
     IN /\ last_number' = (IF r.ok THEN 0 ELSE r.number)
        /\ fmt_call' = [n |-> fmt_call.n + 1, start |-> last_number,
                        autos |-> r.number - last_number, ok |-> r.ok, out |-> r.out]
  /\ UNCHANGED <<visa_lock, in_callback, error_queue, event_queue, command_cnt, cmd_debug,
                 max_len, exception_on_error, handler_installed, pc, op, arg, site, tmp,
                 exc, hnd, ncalls, nsrq, puts, dispatched, field_call, req, cmd_cnt, access, resize>>

FmtNext == \E fields \in Templates, args \in ArgTuples : VFormat(fields, args)

FmtSpec == Init /\ [][FmtNext]_vars

\* the values given to format_field: integers, strings, lists of them, lists of lists
FieldAtoms == {IntVal(1), StrVal(<<"a", "b">>)}

FlatLists == {ListVal(l) : l \in SeqsUpTo(FieldAtoms, MaxElems)}

NestedLists == {ListVal(l) : l \in SeqsUpTo(FlatLists, MaxElems)}

FieldValues == FieldAtoms \cup FlatLists \cup NestedLists

\* the specs given to format_field: "", "s", "d" or "q" followed by up to MaxStars "*"
Stars(n) == [k \in 1..n |-> "*"]

FieldSpecs == {b \o Stars(n) : b \in {<<>>, <<"s">>, <<"d">>, <<"q">>}, n \in 0..MaxStars}

\* a format_field call about to be made on a value and a spec
FieldInit ==
  \E v \in FieldValues, sp \in FieldSpecs :
    /\ InitState(<<DefaultMaxLen>>,
                 [value |-> v, spec |-> sp, done |-> FALSE, ok |-> TRUE, out |-> <<>>])
    /\ exception_on_error

\* the call format_field(value, format_spec)
FormatFieldCall ==
  /\ ~field_call.done
  /\ LET r == FormatField(field_call.value, field_call.spec)
     IN field_call' = [field_call EXCEPT !.done = TRUE, !.ok = r.ok, !.out = r.out]
  /\ UNCHANGED <<visa_lock, in_callback, error_queue, event_queue, command_cnt, cmd_debug,
                 max_len, exception_on_error, handler_installed, pc, op, arg, site, tmp,
                 exc, hnd, ncalls, nsrq, puts, dispatched, last_number, fmt_call, req, cmd_cnt, access, resize>>

FieldNext == FormatFieldCall

FieldSpec == FieldInit /\ [][FieldNext]_vars

\* C19: on one formatter, every vformat call that numbers an empty field name starts
\* the numbering at index 0, whether the calls before it returned or raised.
C19_NumberingStartsAtZero == fmt_call.autos > 0 => fmt_call.start = 0

\* the concatenation of a sequence of sequences
RECURSIVE ConcatAll(_)
ConcatAll(ss) == IF ss = <<>> THEN <<>> ELSE Head(ss) \o ConcatAll(Tail(ss))

\* the format_field call made has the outcome of joining, with ", " and in order, the
\* elements elems formatted with spec sp: their texts, or the exception one of them raises
JoinsFormatted(elems, sp) ==
  LET rs == [k \in 1..Len(elems) |-> FormatField(elems[k], sp)]
  IN IF \A k \in 1..Len(rs) : rs[k].ok
     THEN field_call.ok /\ field_call.out = JoinTexts([k \in 1..Len(rs) |-> rs[k].out], Sep)
     ELSE ~field_call.ok

\* the spec of the call without its last n characters
SpecLess(n) == SubSeq(field_call.spec, 1, Len(field_call.spec) - n)

\* the call made has a spec that ends with the characters tail
SpecEndsWith(tail) ==
  /\ field_call.done
  /\ Len(field_call.spec) >= Len(tail)
  /\ SubSeq(field_call.spec, Len(field_call.spec) - Len(tail) + 1, Len(field_call.spec)) = tail

\* the value of the call is a sequence whose elements are sequences
SeqOfSeqs ==
  /\ IsList(field_call.value)
  /\ \A k \in 1..Len(field_call.value.l) : ~IsInt(field_call.value.l[k])

\* the elements of the elements of the value of the call, in order
Flattened ==
  ConcatAll([k \in 1..Len(field_call.value.l) |-> Elements(field_call.value.l[k])])

\* the parts of the property that do not concern two trailing "*"
StarAndQuote ==
  /\ (SpecEndsWith(<<"*">>) /\ ~IsInt(field_call.value))
       => JoinsFormatted(Elements(field_call.value), SpecLess(1))
  /\ (SpecEndsWith(<<"*">>) /\ field_call.value = ListVal(<<>>))
       => field_call.ok /\ field_call.out = <<>>
  /\ SpecEndsWith(<<"q">>) =>
       LET r == FormatField(field_call.value, Append(SpecLess(1), "s"))
       IN IF r.ok THEN field_call.ok /\ field_call.out = <<SQ>> \o r.out \o <<SQ>>
          ELSE ~field_call.ok
  /\ (SpecEndsWith(<<"q">>) /\ field_call.value = StrVal(<<"a", "b">>))
       => field_call.out = <<"'", "a", "b", "'">>
  /\ (SpecEndsWith(<<"s", "*">>) /\ field_call.value = ListVal(<<IntVal(1), IntVal(1)>>))
       => field_call.out = <<"1", ",", " ", "1">>

\* C20 as stated: format_field with a spec ending in "*" joins with ", ", in order, the
\* elements of the sequence formatted with the spec less the "*"; an empty sequence gives
\* the empty text; a spec ending in "q" puts the formatted value between single quotes;
\* and with two trailing "*" a sequence of sequences gives the ", "-joined list of the
\* elements of its elements.
C20_TwoStarsFlatten ==
  /\ StarAndQuote
  /\ (SpecEndsWith(<<"*", "*">>) /\ SeqOfSeqs) => JoinsFormatted(Flattened, SpecLess(2))

\* C20 amended: the same, where two trailing "*" give the ", "-joined list of the elements
\* of the elements when none of the inner sequences is empty (an empty inner sequence
\* contributes an empty item between the separators).
C20_TwoStarsFlattenNonEmpty ==
  /\ StarAndQuote
  /\ (/\ SpecEndsWith(<<"*", "*">>) /\ SeqOfSeqs
      /\ \A k \in 1..Len(field_call.value.l) : Elements(field_call.value.l[k]) # <<>>)
       => JoinsFormatted(Flattened, SpecLess(2))

\* format_field([[1], ['ab', 1]], "q**") has returned "'1', 'ab', '1'"
C20_Witness ==
  /\ field_call.done /\ field_call.ok
  /\ field_call.spec = <<"q", "*", "*">>
  /\ field_call.value = ListVal(<<ListVal(<<IntVal(1)>>),
                                  ListVal(<<StrVal(<<"a", "b">>), IntVal(1)>>)>>)
  /\ field_call.out = <<"'", "1", "'", ",", " ", "'", "a", "b", "'", ",", " ", "'", "1", "'">>

(***************************************************************************)
(* ArgSpec: one write or query call with any arguments, up to the point    *)
(* where its command text is built.                                        *)
(***************************************************************************)
\* the lists cmd.args of the commands called
ArgLiterals == {{}, {StringLiteral}, {"ON", "OFF"}}

\* the positional arguments: up to MaxArgs integers and strings
ArgValues == SeqsUpTo({IntVal(1), StrVal(<<"a", "b">>)}, MaxArgs)

\* kwargs["fmt"]: absent, the empty string, or a template
ArgFmts == {NoFmt} \cup {Fmt(f) : f \in Templates}

ArgReqs ==
  {Req(lits, a, f, q) : lits \in ArgLiterals, a \in ArgValues, f \in ArgFmts, q \in BOOLEAN}

ArgNext == StartWrite("c1", 1, ArgReqs, Sites) \/ StartQuery("c1", 1, ArgReqs, Sites)

ArgSpec == Init /\ [][ArgNext]_vars

\* the call of c1 has built its command text, or failed to
Built == op["c1"] \in {"write", "query"} /\ pc["c1"] # "idle"

\* the text after the mnemonic and the blank in the command text of c1
ArgText ==
  LET skip == IF op["c1"] = "write" THEN 4 ELSE 5
  IN SubSeq(arg["c1"], skip + 1, Len(arg["c1"]))

\* str(x) of every positional argument, between single quotes if q, joined by ", "
JoinedArgs(q) ==
  JoinTexts([k \in 1..Len(req["c1"].args) |->
               IF q THEN <<SQ>> \o StrOf(req["c1"].args[k]) \o <<SQ>>
               ELSE StrOf(req["c1"].args[k])], Sep)

\* the call of c1 was given a template (an empty template counts as given)
TemplateGiven == req["c1"].fmt.given

\* the call of c1 has the outcome of formatting its template with its arguments
UsesTemplate ==
  LET b == FormatFields(req["c1"].fmt.fields, req["c1"].args, 0, <<>>)
  IN IF b.ok THEN pc["c1"] \in {"w_lock", "q_lock"} /\ ArgText = b.out
     ELSE pc["c1"] = "done" /\ exc["c1"].kind = "FormatError"

\* C21 as stated: without a template the argument string is every argument between
\* single quotes, joined by ", ", if cmd.args holds 'string', and otherwise every argument
\* in its str() form joined by ", "; with a template, the template is used.
C21_DefaultByLiteral ==
  Built =>
    IF TemplateGiven THEN UsesTemplate
    ELSE /\ pc["c1"] \in {"w_lock", "q_lock"}
         /\ ArgText = JoinedArgs(StringLiteral \in req["c1"].lits)

\* C21 amended: the quoted form is also chosen by the option quote, and an empty
\* template counts as no template.
C21_DefaultByLiteralOrQuote ==
  Built =>
    IF TemplateGiven /\ req["c1"].fmt.fields # <<>> THEN UsesTemplate
    ELSE /\ pc["c1"] \in {"w_lock", "q_lock"}
         /\ ArgText = JoinedArgs(req["c1"].quote \/ StringLiteral \in req["c1"].lits)

\* write(cmd, 1, 'ab', quote=True) on a command that accepts no quoted string has built
\* "ABC '1', 'ab'"
C21_Witness ==
  /\ op["c1"] = "write" /\ pc["c1"] = "w_lock"
  /\ req["c1"] = Req({}, <<IntVal(1), StrVal(<<"a", "b">>)>>, NoFmt, TRUE)
  /\ arg["c1"] = <<"A", "B", "C", " ", "'", "1", "'", ",", " ", "'", "a", "b", "'">>

\* thread t runs write or query
InWriteOrQuery(t) == op[t] \in {"write", "query"}

\* in this step the call of thread t comes to fail with an InstrumentError
FailsWithQueuedError(t) ==
  /\ InWriteOrQuery(t)
  /\ exc[t].kind # "InstrumentError" /\ exc'[t].kind = "InstrumentError"

\* C22 as stated: a write or query call that fails with an InstrumentError from the
\* queue has not entered a transport primitive for its command, and the step in which it
\* fails removes that error from the head of the queue and leaves the counter and the
\* history as they are.
C22_QueuedErrorNoDispatch ==
  [][\A t \in Callers :
       FailsWithQueuedError(t) =>
         /\ ~req[t].sent
         /\ error_queue # <<>> /\ error_queue' = Tail(error_queue)
         /\ exc'[t].err = Head(error_queue)
         /\ UNCHANGED <<command_cnt, cmd_debug, dispatched>>]_vars

\* C22 amended: the same for a call that fails in its error-raising step: up to that
\* step and from it to its end the call has entered no transport primitive and its steps
\* leave the counter, the history and the event queue unchanged, the one change being
\* the removal of the error from the head of the queue; the other way to fail with a
\* queued error is a query's grace-period wait, which comes after its transport call.
C22_RaisedBeforeDispatch ==
  /\ [](\A t \in Callers :
          (InWriteOrQuery(t)
             /\ \/ pc[t] \in {"w_lock", "q_lock", "cv_empty", "cv_probe", "cv_release", "cv_get"}
                \/ pc[t] \in {"w_unlock", "q_unlock"} /\ exc[t].kind = "InstrumentError")
            => ~req[t].sent)
  /\ [][\A t \in Callers :
          /\ FailsWithQueuedError(t) =>
               \/ /\ pc[t] = "cv_get" /\ pc'[t] \in {"w_unlock", "q_unlock"}
                  /\ ~req'[t].sent
                  /\ error_queue # <<>> /\ error_queue' = Tail(error_queue)
                  /\ exc'[t].err = Head(error_queue)
                  /\ UNCHANGED <<command_cnt, cmd_debug, dispatched, event_queue>>
               \/ pc[t] = "q_grace" /\ req[t].sent /\ exc[t].kind = "Timeout"
          /\ (InWriteOrQuery(t) /\ pc'[t] # pc[t] /\ pc'[t] # "cv_read"
                /\ pc[t] \in {"w_lock", "q_lock", "cv_empty", "cv_probe", "cv_release"}) =>
               UNCHANGED <<command_cnt, cmd_debug, dispatched, event_queue, error_queue>>
          /\ (InWriteOrQuery(t) /\ pc'[t] # pc[t] /\ ~req[t].sent
                /\ pc[t] \in {"w_unlock", "q_unlock"} /\ exc[t].kind = "InstrumentError") =>
               /\ pc'[t] = "done" /\ exc'[t] = exc[t]
               /\ UNCHANGED <<command_cnt, cmd_debug, dispatched, event_queue, error_queue>>]_vars

\* a write has failed with the queued error in its error-raising step, after an earlier
\* command was dispatched and recorded
C22_Witness ==
  /\ op["c1"] = "write" /\ pc["c1"] = "done"
  /\ exc["c1"].kind = "InstrumentError" /\ ~req["c1"].sent
  /\ command_cnt > 0 /\ cmd_debug # <<>> /\ error_queue = <<>>

\* C23: the IO lock is taken and the queued-error check is made before the command text
\* is built: a write or query call started with error-raising enabled, an error in the
\* queue and both locks free does not fail with a formatting error in its first step,
\* before it has taken the IO lock.
C23_ErrorCheckBeforeBuild ==
  [][\A t \in Callers :
       (/\ pc[t] = "idle" /\ pc'[t] # "idle" /\ op'[t] \in {"write", "query"}
        /\ exception_on_error /\ error_queue # <<>>
        /\ visa_lock = Free /\ in_callback = Free)
         => ~(exc'[t].kind = "FormatError" /\ pc'[t] = "done" /\ visa_lock' = Free)]_vars

\* the argument index that field k of a template refers to: its own index, or the
\* number of automatically numbered fields before it
FieldKey(fields, k) ==
  IF fields[k].auto THEN Cardinality({j \in 1..(k - 1) : fields[j].auto})
  ELSE fields[k].idx

\* the template of request r is malformed: it has a field that refers to no positional
\* argument, or a field whose spec ends in the sequence marker and whose argument is an
\* integer
Malformed(r) ==
  /\ r.fmt.given
  /\ \E k \in 1..Len(r.fmt.fields) :
       LET key == FieldKey(r.fmt.fields, k)
           spec == r.fmt.fields[k].spec
       IN \/ key >= Len(r.args)
          \/ spec # <<>> /\ spec[Len(spec)] = "*" /\ IsInt(r.args[key + 1])

\* C24: a write or query call whose template is malformed fails with a formatting error
\* in its first step, without taking the IO lock or entering a transport primitive and
\* with the counter, the history, the dispatch log and both queues unchanged; the failed
\* call does nothing more than return, and it counts as one call.
C24_MalformedFailsBeforeDispatch ==
  /\ [](\A t \in Callers :
          exc[t].kind = "FormatError" =>
            /\ pc[t] = "done" /\ InWriteOrQuery(t) /\ Malformed(req[t])
            /\ ~req[t].sent /\ visa_lock # t)
  /\ [][\A t \in Callers :
          /\ (pc[t] = "idle" /\ pc'[t] # "idle" /\ Malformed(req'[t])) =>
               /\ exc'[t].kind = "FormatError" /\ pc'[t] = "done"
               /\ ncalls' = ncalls + 1
               /\ UNCHANGED <<visa_lock, in_callback, command_cnt, cmd_debug, dispatched,
                              error_queue, event_queue>>
          /\ (pc[t] = "done" /\ exc[t].kind = "FormatError" /\ pc'[t] # pc[t]) =>
               /\ pc'[t] = "idle"
               /\ UNCHANGED <<visa_lock, in_callback, command_cnt, cmd_debug, dispatched,
                              error_queue, event_queue, ncalls>>]_vars

\* a write with a sequence spec on an integer has failed after an earlier command was
\* dispatched and recorded
C24_Witness ==
  /\ op["c1"] = "write" /\ pc["c1"] = "done" /\ exc["c1"].kind = "FormatError"
  /\ Malformed(req["c1"]) /\ req["c1"].args # <<>>
  /\ command_cnt = 1 /\ dispatched.n = 1 /\ cmd_debug # <<>> /\ ncalls = 2

\* text occurs in msg
Embeds(msg, text) ==
  \E i \in 1..(Len(msg) - Len(text) + 1) : SubSeq(msg, i, i + Len(text) - 1) = text

\* three upper-case letters stand at index p of line
Upper3At(line, p) ==
  /\ p + 2 <= Len(line)
  /\ \A q \in p..(p + 2) : line[q] \in UpperCase

\* the first line of msg
FirstLine(msg) ==
  IF \E i \in 1..Len(msg) : msg[i] = NL
  THEN SubSeq(msg, 1, (CHOOSE i \in 1..Len(msg) : msg[i] = NL /\ \A j \in 1..(i - 1) : msg[j] # NL) - 1)
  ELSE msg

\* the lookup keys of msg: the part of its first line from the first run of three
\* upper-case letters on (none if the line has no such run)
LookupKeys(msg) ==
  LET line == FirstLine(msg)
  IN { Drop(line, p) : p \in { q \in 1..Len(line) :
                                  Upper3At(line, q) /\ \A r \in 1..(q - 1) : ~Upper3At(line, r) } }

\* the stack recorded at the most recent dispatch of the command text k, if any
LatestStacks(k) == { e.value : e \in { x \in dispatched.last : x.key = k } }

\* the error the handler appends in this step, and the device record it stands for
PushedError == error_queue'[Len(error_queue')]

PushedRecord == hnd.recs[hnd.cnt + 1]

\* the handler appends the error of a matched record in this step
PushesMatched == pc[CB] = "h_loop" /\ Len(error_queue') = Len(error_queue) + 1 /\ hnd.todo # <<>>

\* the error e that thread t is raising carries the stack that t's own call recorded
\* for its own command, which the message of e embeds
RaisesOwnStack(t, e) ==
  /\ req[t].sent /\ e.stack.present
  /\ Embeds(e.msg, arg[t]) /\ e.stack \in LatestStacks(arg[t])

SkipsSelect(o) == access.stage = "none" /\ access'.stage = "set" /\ access'.obj = o

\* C26: a property access on a Trace or a Marker skips the select-trace command only if
\* the object has made a property access before and no command has been dispatched on
\* the instrument since its latest property command ended.
C26_SkipOnlyWhenFresh ==
  [][\A o \in Objs :
       SkipsSelect(o) => cmd_cnt[o] # <<>> /\ dispatched.n = access.seen[o]]_vars

\* the transport call of thread t has failed and t is about to leave the IO lock
TransportFailed(t) ==
  pc[t] \in {"w_unlock", "q_unlock"} /\ exc[t].kind \in {"Timeout", "IOError"}

\* C27: only a query that timed out with error-raising enabled waits on the error queue.
\* A write whose transport call failed, and a query that timed out with error-raising
\* disabled, end with the transport error they got, in a step that neither waits on the
\* error queue nor takes anything from it; and whatever failure a call ends with, a
\* write never ends with an InstrumentError once its transport call has been made.
C27_GraceOnlyForQueryTimeout ==
  /\ [](\A t \in Callers :
          /\ pc[t] = "q_grace" =>
               op[t] = "query" /\ exc[t].kind = "Timeout" /\ exception_on_error
          /\ (op[t] = "write" /\ req[t].sent) => exc[t].kind # "InstrumentError"
          /\ (op[t] = "query" /\ req[t].sent /\ ~exception_on_error) =>
               exc[t].kind # "InstrumentError")
  /\ [][\A t \in Callers :
          (/\ TransportFailed(t) /\ pc'[t] # pc[t]
           /\ \/ op[t] = "write"
              \/ op[t] = "query" /\ exc[t].kind = "Timeout" /\ ~exception_on_error)
            => /\ pc'[t] = "done" /\ exc'[t] = exc[t]
               /\ error_queue' = error_queue]_vars

\* a write has ended with the timeout of its transport call while error-raising is
\* enabled and an error is on the queue
C27_Witness ==
  /\ op["c1"] = "write" /\ pc["c1"] = "done" /\ exc["c1"].kind = "Timeout"
  /\ exception_on_error /\ error_queue # <<>> /\ req["c1"].sent

\* C28: a write or query call never fails with the empty-queue exception of the
\* non-blocking get, whatever other threads take from the error queue between its
\* emptiness test and its get.
C28_NeverEmptyQueueException ==
  \A t \in Callers : InWriteOrQuery(t) => exc[t].kind # "QueueEmpty"

\* C29: under fair scheduling and fair lock acquisition, every call a caller thread has
\* started (write, query, init) comes to its end, returning or failing, and every
\* handler invocation that has started comes to its end with both locks released.
C29_EveryCallCompletes ==
  /\ \A t \in Callers : (pc[t] \notin {"idle", "done"}) ~> (pc[t] = "done")
  /\ (pc[CB] # "idle") ~> (pc[CB] = "idle" /\ visa_lock # CB /\ in_callback # CB)

\* both caller threads wait for the IO lock while the handler holds it inside its body
C29_Witness ==
  /\ pc["c1"] \in {"w_lock", "q_lock"} /\ pc["c2"] \in {"w_lock", "q_lock"}
  /\ visa_lock = CB /\ in_callback = CB

\* C30: a query in its grace-period wait after a timeout does not hold the IO lock: the
\* step that enters the wait frees the lock, so a handler invocation that was waiting
\* for the lock during the timed-out transport call is then able to acquire it, and the
\* lock is never owned by a thread that is in the wait.
C30_GraceWaitWithoutLock ==
  /\ [](\A t \in Callers : pc[t] = "q_grace" => visa_lock # t)
  /\ [][\A t \in Callers :
          (pc[t] # "q_grace" /\ pc'[t] = "q_grace")
            => /\ exc[t].kind = "Timeout" /\ visa_lock = t /\ visa_lock' = Free
               /\ pc[CB] = "h_lock" => pc'[CB] = "h_lock"]_vars

\* the handler holds the IO lock and has pushed a drained device error while the query
\* is still in its grace-period wait
C30_Witness ==
  /\ op["c1"] = "query" /\ pc["c1"] = "q_grace"
  /\ visa_lock = CB /\ hnd.drained /\ hnd.pushed # <<>>
  /\ error_queue # <<>>

\* thread t takes the step of the probe at line 209 and finds the guard held: the raise
\* is skipped
SkipsRaise(t) == pc[t] = "cv_probe" /\ pc'[t] = "cv_read"

\* C31: whenever the callback thread holds the callback guard it also holds the IO lock;
\* a caller thread that runs the error check inside write or query never finds the guard
\* held, and the raise is skipped only by the callback thread or by a call of init(),
\* which does not take the IO lock.
C31_GuardImpliesIoLock ==
  /\ [](in_callback = CB => visa_lock = CB)
  /\ [][\A t \in Threads :
          SkipsRaise(t) => /\ ~InWriteOrQuery(t)
                           /\ t = CB \/ op[t] = "init"]_vars

\* the last n entries of dictionary d
Newest(d, n) == SubSeq(d, Len(d) - n + 1, Len(d))

\* C32: an assignment of a capacity C >= 1 that is smaller than the size of the history
\* leaves exactly its C newest entries, in their order, at once; while the capacity is
\* None or 0 an assignment of an item evicts nothing: every entry stays and a new key
\* makes the size grow by one.
C32_ShrinkEvictsOldest ==
  [][/\ (max_len' # max_len /\ Truthy(max_len') /\ max_len'[1] < Len(cmd_debug))
          => cmd_debug' = Newest(cmd_debug, max_len'[1])
     /\ (max_len' = max_len /\ ~Truthy(max_len) /\ cmd_debug' # cmd_debug)
          => /\ \A i \in 1..Len(cmd_debug) : DictHas(cmd_debug', cmd_debug[i].key)
             /\ Len(cmd_debug') >= Len(cmd_debug)
             /\ \A i \in 1..Len(cmd_debug') :
                  ~DictHas(cmd_debug, cmd_debug'[i].key) => Len(cmd_debug') = Len(cmd_debug) + 1
    ]_vars

\* the dictionary had grown past one entry under a capacity of None or 0, and the latest
\* assignment of a capacity of 1 has left one entry
C32_Witness ==
  /\ resize.done /\ ~Truthy(resize.from) /\ resize.size >= 2
  /\ max_len = <<1>> /\ Len(cmd_debug) = 1

====
